---- MODULE Spec2Model ----
(***************************************************************************)
(* Verification model of the restcraft web framework: the request          *)
(* lifecycle of RestCraft.process_request / RestCraft.wsgi                 *)
(* (core/application.py), the Response finalisation (core/response.py),    *)
(* the application errors (core/exceptions.py) and the regex-list Router   *)
(* (core/routing/router.py, core/routing/route.py).                        *)
(*                                                                         *)
(* Python values are tagged records so that values of different Python     *)
(* types can be compared: None, str, dict (an insertion-ordered sequence   *)
(* of <<key, value>> pairs), list, Response objects and exceptions.        *)
(***************************************************************************)
EXTENDS Integers, Sequences, FiniteSets, TLC

\* ------------------------------------------------------------------------
\* Bounds of the model
\* ------------------------------------------------------------------------
MaxMiddlewares == 2
MaxViews == 2
MaxRoutes == 3

\* ------------------------------------------------------------------------
\* Python values
\* ------------------------------------------------------------------------
None_ == [t |-> "None"]
Str(s) == [t |-> "str", s |-> s]
Dict(items) == [t |-> "dict", items |-> items]
List(items) == [t |-> "list", items |-> items]

Truthy(v) ==
    CASE v.t = "None" -> FALSE
      [] v.t = "str" -> v.s # ""
      [] v.t = "dict" -> v.items # <<>>
      [] v.t = "list" -> v.items # <<>>
      [] OTHER -> TRUE

\* d[k] = v on an insertion-ordered dict: an existing key keeps its position
DictHas(d, k) == \E i \in 1..Len(d) : d[i][1] = k
DictGet(d, k) == d[CHOOSE i \in 1..Len(d) : d[i][1] = k][2]
DictSet(d, k, v) ==
    IF DictHas(d, k)
    THEN [i \in 1..Len(d) |-> IF d[i][1] = k THEN <<k, v>> ELSE d[i]]
    ELSE Append(d, <<k, v>>)
DictDel(d, k) == SelectSeq(d, LAMBDA p : p[1] # k)
RECURSIVE DictUpdate(_, _)
DictUpdate(d, other) ==
    IF other = <<>> THEN d
    ELSE DictUpdate(DictSet(d, other[1][1], other[1][2]), Tail(other))

\* str.lower() on the header names the model uses
Lower(k) ==
    CASE k = "X-Trace" -> "x-trace"
      [] k = "Content-Type" -> "content-type"
      [] k = "Content-Length" -> "content-length"
      [] k = "Allow" -> "allow"
      [] k = "Content-Encoding" -> "content-encoding"
      [] k = "Content-Language" -> "content-language"
      [] k = "Content-Range" -> "content-range"
      [] k = "Content-Md5" -> "content-md5"
      [] k = "Last-Modified" -> "last-modified"
      [] OTHER -> k

\* ------------------------------------------------------------------------
\* core/response.py
\* ------------------------------------------------------------------------
\* the entries of _HTTP_CODES the model uses (http.client.responses)
_HTTP_CODES ==
    [c \in {200, 204, 304, 400, 404, 413, 422, 500} |->
        CASE c = 200 -> "OK"
          [] c = 204 -> "No Content"
          [] c = 304 -> "Not Modified"
          [] c = 400 -> "Bad Request"
          [] c = 404 -> "Not Found"
          [] c = 413 -> "Request Entity Too Large"
          [] c = 422 -> "Unprocessable Entity"
          [] c = 500 -> "Internal Server Error"]

\* '%d %s' % (k, v)
_HTTP_STATUS_LINES == [c \in DOMAIN _HTTP_CODES |-> <<c, _HTTP_CODES[c]>>]

default_headers(cls) ==
    IF cls = "JSONResponse"
    THEN <<<<"content-type", "application/json; charset=utf-8">>>>
    ELSE <<<<"content-type", "text/plain; charset=utf-8">>>>

bad_headers ==
    [c \in {204, 304} |->
        IF c = 204 THEN <<"Content-Type", "Content-Length">>
        ELSE <<"Allow", "Content-Encoding", "Content-Language",
               "Content-Length", "Content-Range", "Content-Type",
               "Content-Md5", "Last-Modified">>]

\* Response.__init__: headers is None_ or a dict of header name -> value
RECURSIVE LowerInto(_, _)
LowerInto(h, items) ==
    IF items = <<>> THEN h
    ELSE LowerInto(DictSet(h, Lower(items[1][1]), items[1][2]), Tail(items))

ResponseInit(cls, body, status_code, headers) ==
    [t |-> "Response", cls |-> cls, body |-> body, status |-> status_code,
     headers |-> IF Truthy(headers)
                 THEN LowerInto(default_headers(cls), headers.items)
                 ELSE default_headers(cls)]

isinstance_Response(v) == v.t = "Response"

\* The bytes of an encoded body are modelled as the string they spell.
RECURSIVE JsonText(_), JsonItems(_), JsonElems(_)
JsonText(v) ==
    CASE v.t = "None" -> "null"
      [] v.t = "str" -> "\"" \o v.s \o "\""
      [] v.t = "dict" -> "{" \o JsonItems(v.items) \o "}"
      [] v.t = "list" -> "[" \o JsonElems(v.items) \o "]"
JsonItems(d) ==
    IF d = <<>> THEN ""
    ELSE "\"" \o d[1][1] \o "\": " \o JsonText(d[1][2]) \o
         (IF Len(d) > 1 THEN ", " ELSE "") \o JsonItems(Tail(d))
JsonElems(l) ==
    IF l = <<>> THEN ""
    ELSE JsonText(l[1]) \o (IF Len(l) > 1 THEN ", " ELSE "") \o
         JsonElems(Tail(l))

\* json.dumps(body).encode()
JsonDumps(body) == JsonText(body)

RECURSIVE ReprText(_), ReprItems(_), ReprElems(_)
ReprText(v) ==
    CASE v.t = "None" -> "None"
      [] v.t = "str" -> "'" \o v.s \o "'"
      [] v.t = "dict" -> "{" \o ReprItems(v.items) \o "}"
      [] v.t = "list" -> "[" \o ReprElems(v.items) \o "]"
ReprItems(d) ==
    IF d = <<>> THEN ""
    ELSE "'" \o d[1][1] \o "': " \o ReprText(d[1][2]) \o
         (IF Len(d) > 1 THEN ", " ELSE "") \o ReprItems(Tail(d))
ReprElems(l) ==
    IF l = <<>> THEN ""
    ELSE ReprText(l[1]) \o (IF Len(l) > 1 THEN ", " ELSE "") \o
         ReprElems(Tail(l))

\* str(body).encode(): a str is itself, anything else its repr
StrEncode(body) == IF body.t = "str" THEN body.s ELSE ReprText(body)

\* Response._encode / JSONResponse._encode
_encode(r) ==
    IF r.body = None_ \/ r.body = Str("") THEN ""
    ELSE IF r.cls = "JSONResponse" THEN JsonDumps(r.body)
    ELSE StrEncode(r.body)

\* Response.status_line: a KeyError for a status outside the table
status_line_raises(r) == r.status \notin DOMAIN _HTTP_STATUS_LINES
status_line(r) == _HTTP_STATUS_LINES[r.status]

\* Response.header_list: drops the bad headers of the status
RECURSIVE DelAll(_, _)
DelAll(h, names) ==
    IF names = <<>> THEN h
    ELSE DelAll(DictDel(h, Lower(names[1])), Tail(names))

\* utils/helpers.py pep3333: str(value).encode('latin1').decode('utf8'),
\* which leaves the ASCII header values of the model as they are
pep3333(v) == v

header_list(r) ==
    LET h == IF r.status \in DOMAIN bad_headers
             THEN DelAll(r.headers, bad_headers[r.status])
             ELSE r.headers
    IN [i \in 1..Len(h) |-> <<h[i][1], pep3333(h[i][2])>>]

\* Response.get_response: (data, status line, header list), when
\* status_line does not raise
get_response(r) ==
    LET data == _encode(r)
        r2 == [r EXCEPT !.headers = DictSet(@, "content-length", ToString(Len(data)))]
    IN [data |-> data, status |-> status_line(r2), headers |-> header_list(r2)]

\* ------------------------------------------------------------------------
\* core/exceptions.py
\* ------------------------------------------------------------------------
RestCraftExceptionClasses ==
    {"RestCraftException", "HTTPException", "RequestBodyTooLarge",
     "RouteNotFound"}

default_status_code(cls) ==
    CASE cls = "HTTPException" -> 400
      [] cls = "RequestBodyTooLarge" -> 413
      [] cls = "RouteNotFound" -> 404
      [] OTHER -> 500

default_message(cls) ==
    CASE cls = "HTTPException" -> "An unknown error has occurred."
      [] cls = "RequestBodyTooLarge" -> "Request body too large."
      [] cls = "RouteNotFound" -> "Route not found."
      [] OTHER -> "Internal server error."

default_exception_code(cls) ==
    CASE cls = "HTTPException" -> "HTTP_EXCEPTION"
      [] cls = "RequestBodyTooLarge" -> "BODY_TOO_LARGE"
      [] cls = "RouteNotFound" -> "ROUTE_NOT_FOUND"
      [] OTHER -> "INTERNAL_SERVER_ERROR"

\* RestCraftException.__init__: message and exception_code "" and
\* status_code 0 stand for an argument left None (x or default)
RestCraftExceptionInit(cls, message, payload, status_code, exception_code, headers) ==
    [t |-> "exc", cls |-> cls,
     message |-> IF message # "" THEN message ELSE default_message(cls),
     payload |-> payload,
     status_code |-> IF status_code # 0 THEN status_code
                     ELSE default_status_code(cls),
     exception_code |-> IF exception_code # "" THEN exception_code
                        ELSE default_exception_code(cls),
     headers |-> headers]

\* an exception that is not a RestCraftException: str(e) is its message
PyException(cls, text) ==
    [t |-> "exc", cls |-> cls, message |-> text, payload |-> None_,
     status_code |-> 0, exception_code |-> "", headers |-> None_]

IsRestCraftException(e) == e.cls \in RestCraftExceptionClasses

\* RestCraftException.to_response: **(payload or {}) is a TypeError for a
\* truthy payload that is not a mapping
to_response_raises(e) == Truthy(e.payload) /\ e.payload.t # "dict"
to_response(e) ==
    Dict(DictUpdate(<<<<"code", Str(e.exception_code)>>,
                      <<"message", Str(e.message)>>>>,
                    IF Truthy(e.payload) THEN e.payload.items ELSE <<>>))

\* ------------------------------------------------------------------------
\* What the application's views and middlewares may do
\* ------------------------------------------------------------------------
Methods == {"GET", "HEAD", "POST"}

\* request paths, as their "/"-separated segments
Paths == {<<"ping">>, <<"ping", "x">>, <<"other">>}

\* A compiled view.route: "^/" segs, anchored with "$" when end is TRUE
Regex(segs, end) == [segs |-> segs, end |-> end]

\* the view classes of the application: route, methods and whether the
\* class overrides View.on_exception
ViewDefs ==
    [v \in {"PingView", "CatchAllView", "HeadPingView"} |->
        CASE v = "PingView" ->
               [route |-> Regex(<<"ping">>, TRUE), methods |-> <<"GET">>,
                overrides_on_exception |-> FALSE]
          [] v = "CatchAllView" ->
               [route |-> Regex(<<>>, FALSE), methods |-> <<"get", "post">>,
                overrides_on_exception |-> TRUE]
          [] v = "HeadPingView" ->
               [route |-> Regex(<<"ping">>, FALSE), methods |-> <<"HEAD">>,
                overrides_on_exception |-> TRUE]]

Views == DOMAIN ViewDefs
MiddlewareIds == {"M1", "M2"}

\* str.upper() on the method names the model uses
Upper(m) ==
    CASE m = "get" -> "GET"
      [] m = "post" -> "POST"
      [] m = "head" -> "HEAD"
      [] OTHER -> m

\* Response objects a hook may build; Response.__init__ stores any
\* status_code, so one of them has a status without a status line
ResponsePool ==
    { ResponseInit("JSONResponse",
                   Dict(<<<<"message", Str("early return")>>>>), 200, None_),
      ResponseInit("Response", None_, 204, Dict(<<<<"X-Trace", "1">>>>)),
      ResponseInit("Response", Str("pong"), 404, None_),
      ResponseInit("Response", Str("pong"), 999, None_) }

\* a hook return value that is neither None nor a Response
NonResponse == Dict(<<<<"message", Str("this will throw")>>>>)

AppErrors ==
    { RestCraftExceptionInit("HTTPException", "http-error", None_, 422, "",
                             None_),
      RestCraftExceptionInit("HTTPException", "teapot", None_, 999, "",
                             None_),
      RestCraftExceptionInit("RestCraftException", "",
                             List(<<Str("field")>>), 0, "", None_),
      RestCraftExceptionInit("HTTPException", "conflict",
                             Dict(<<<<"code", Str("OVERRIDDEN")>>>>), 0, "",
                             Dict(<<<<"X-Trace", "1">>>>)) }

OtherErrors ==
    { PyException("Exception", "boom"),
      PyException("ValueError", "secret-token") }

ExcPool == AppErrors \cup OtherErrors

Return(v) == [kind |-> "return", val |-> v]
Raise(e) == [kind |-> "raise", val |-> e]
Mutate(b) == [kind |-> "mutate", val |-> b]

\* outcomes of before_route / before_handler / handler
HookOutcomes ==
    {Return(None_), Return(NonResponse)} \cup
    {Return(r) : r \in ResponsePool} \cup {Raise(e) : e \in ExcPool}

\* settings.MAX_BODY_SIZE, 124 * 1024
MAX_BODY_SIZE == 126976

\* int(env.get('CONTENT_LENGTH', '0')) of the requests
ContentLengths == {0, MAX_BODY_SIZE + 1}

\* Request._read_body (core/request.py lines 85-93): raises
\* RequestBodyTooLarge before it reads anything
_read_body_raises(r) ==
    /\ r.method \in {"POST", "PUT", "PATCH"}
    /\ r.content_length > MAX_BODY_SIZE

\* a handler that reads the body: return JSONResponse(body=req.json), for
\* a request of content type application/json; req.json is None for an
\* empty body
ReadsJson == [kind |-> "json", val |-> None_]

HandlerOutcomes == HookOutcomes \cup {ReadsJson}

\* what a handler outcome comes to for the request r
HandlerDoes(o, r) ==
    IF o.kind # "json" THEN o
    ELSE IF _read_body_raises(r)
    THEN Raise(RestCraftExceptionInit("RequestBodyTooLarge", "", None_, 0,
                                      "", None_))
    ELSE Return(ResponseInit("JSONResponse", None_, 200, None_))

\* outcomes of after_handler(req, res): the return value is ignored; the
\* hook may change the body of res (res.set_body = ...)
AfterOutcomes ==
    {Return(None_), Mutate(Dict(<<<<"message", Str("changed")>>>>)),
     Return(ResponseInit("Response", Str("replaced"), 400, None_))} \cup
    {Raise(e) : e \in ExcPool}

\* the Response res after an after_handler hook did o: the hook works on
\* the object itself and what it returns is dropped (lines 358, 376-377)
AfterEffect_substitute(res, o) ==
    IF o.kind = "mutate" THEN [res EXCEPT !.body = o.val]
    ELSE IF o.kind = "return" /\ isinstance_Response(o.val) THEN o.val
    ELSE res

AfterEffect(res, o) ==
    IF o.kind = "mutate" THEN [res EXCEPT !.body = o.val] ELSE res

\* ------------------------------------------------------------------------
\* core/application.py: the handlers at the end of process_request
\* ------------------------------------------------------------------------
\* How process_request ends: it returns the tuple `value`, the finalized
\* form of the Response object `response`, or the exception `exc` leaves
\* it; log is what it wrote to env['wsgi.errors']
NoTriple == [data |-> "", status |-> <<0, "">>, headers |-> <<>>]
Returned(r) ==
    [kind |-> "returned", value |-> get_response(r), response |-> r,
     exc |-> None_, log |-> <<>>]
Escaped(e) ==
    [kind |-> "escaped", value |-> NoTriple, response |-> None_, exc |-> e,
     log |-> <<>>]

\* traceback.format_exc(), as its lines
format_exc(e) ==
    <<"Traceback (most recent call last):", e.cls \o ": " \o e.message>>

\* str.splitlines() into a Python list
splitlines(lines) == List([i \in 1..Len(lines) |-> Str(lines[i])])

KeyErrorOf(r) == PyException("KeyError", ToString(r.status))

\* except RestCraftException as e (lines 384-396): an exception raised
\* here leaves process_request
except_RestCraftException(e, debug) ==
    LET e2 == IF debug
              THEN [e EXCEPT !.payload =
                      Dict(<<<<"details",
                               Dict(<<<<"exception", Str(e.message)>>,
                                      <<"stacktrace",
                                        splitlines(format_exc(e))>>>>)>>>>)]
              ELSE e
    IN IF to_response_raises(e2)
       THEN Escaped(PyException("TypeError", "object is not a mapping"))
       ELSE LET out == ResponseInit("JSONResponse", to_response(e2),
                                    e2.status_code, e2.headers)
            IN IF status_line_raises(out) THEN Escaped(KeyErrorOf(out))
               ELSE Returned(out)

\* except Exception as e (lines 397-437)
except_Exception_leaky(e, debug) ==
    LET stacktrace == format_exc(e)
        exc_body == <<<<"code", Str("INTERNAL_SERVER_ERROR")>>,
                      <<"message", Str(e.message)>>>>
        out == ResponseInit("JSONResponse", Dict(exc_body), 500, None_)
    IN [Returned(out) EXCEPT !.log = <<stacktrace>>]

except_Exception(e, debug) ==
    LET stacktrace == format_exc(e)
        base == <<<<"code", Str("INTERNAL_SERVER_ERROR")>>,
                  <<"message", Str("Something went wrong, try again later.")>>>>
        exc_body == IF debug
                    THEN DictSet(base, "details",
                                 Dict(<<<<"exception", Str(e.message)>>,
                                        <<"stacktrace",
                                          splitlines(stacktrace)>>>>))
                    ELSE base
        out == ResponseInit("JSONResponse", Dict(exc_body), 500, None_)
    IN [Returned(out) EXCEPT !.log = <<stacktrace>>]

\* an exception raised in the outer try block
Dispatch(e, debug) ==
    IF IsRestCraftException(e) THEN except_RestCraftException(e, debug)
    ELSE except_Exception(e, debug)

\* `return r.get_response()` inside the outer try block
return_get_response(r, debug) ==
    IF status_line_raises(r) THEN Dispatch(KeyErrorOf(r), debug)
    ELSE Returned(r)

\* view.route of the instance of each view class: the str of the class
\* body, or the re.Pattern compiled from it
VARIABLE view_route

\* re.compile(view.route) (line 233)
re_compile_anchored(r) ==
    [compiled |-> TRUE, pattern |-> [r.pattern EXCEPT !.end = TRUE]]

re_compile(r) == [r EXCEPT !.compiled = TRUE]

\* re.Pattern.match(path): the pattern is anchored at the start only
re_match(rx, path) ==
    /\ Len(rx.segs) <= Len(path)
    /\ SubSeq(path, 1, Len(rx.segs)) = rx.segs
    /\ rx.end => Len(path) = Len(rx.segs)

\* RestCraft.match: the views tried in order, the method's bucket first
\* and the GET bucket after it for HEAD; <<>> when it raises RouteNotFound
Candidates_any_method(routes, method) ==
    routes[method] \o routes["GET"] \o routes["POST"]

Candidates(routes, method) ==
    routes[method] \o (IF method = "HEAD" THEN routes["GET"] ELSE <<>>)

match(routes, path, method) ==
    LET cands == Candidates(routes, method)
        hits == SelectSeq(cands,
                          LAMBDA v : re_match(view_route[v].pattern, path))
    IN IF hits = <<>> THEN <<>> ELSE <<hits[1]>>

\* the views whose route match tests (lines 231-236), each compiled first
\* when it is still a str: those up to the first one that matches
Scanned(routes, path, method) ==
    LET cands == Candidates(routes, method)
        hits == {i \in 1..Len(cands) :
                   re_match(view_route[cands[i]].pattern, path)}
        last == IF hits = {} THEN Len(cands)
                ELSE CHOOSE i \in hits : \A j \in hits : i <= j
    IN {cands[i] : i \in 1..last}

\* ------------------------------------------------------------------------
\* core/routing/types.py, core/routing/route.py
\* ------------------------------------------------------------------------
\* the path segments of the model that are digit strings, with int(s)
DigitStrings == {"7", "42"}
int(s) == IF s = "7" THEN 7 ELSE 42

\* the ParamType classes: their pattern and their convert
IntType == [name |-> "IntType", pattern |-> "(\\d+)"]
FloatType == [name |-> "FloatType", pattern |-> "(\\d+\\.\\d+)"]
StringType == [name |-> "StringType", pattern |-> "([^/]+)"]
SlugType == [name |-> "SlugType", pattern |-> "([a-z0-9-]+)"]
UUIDType == [name |-> "UUIDType", pattern |-> "([0-9a-fA-F-]{36})"]

\* whether a ParamType pattern matches a whole path segment of the model
\* (the segments are lower-case and have no "/" and no "."; the segment
\* between two adjacent slashes, or after a last slash, is "")
PatternMatches(pattern, seg) ==
    CASE seg = "" -> FALSE
      [] pattern = IntType.pattern -> seg \in DigitStrings
      [] pattern = StringType.pattern -> TRUE
      [] pattern = SlugType.pattern -> TRUE
      [] OTHER -> FALSE

convert_str(type, value) == Str(value)

convert(type, value) ==
    IF type.name = "IntType" THEN [t |-> "int", n |-> int(value)]
    ELSE Str(value)

\* router.py lines 16-23
_type_map ==
    [k \in {"default", "int", "float", "str", "slug", "uuid"} |->
        CASE k = "int" -> IntType
          [] k = "float" -> FloatType
          [] k = "slug" -> SlugType
          [] k = "uuid" -> UUIDType
          [] OTHER -> StringType]

\* A route pattern is the list of its "/"-separated segments: a static
\* segment "items", one parameter <name>, <name:type>, <?name>,
\* <?name:type> (type "" when the pattern gives none), or two parameters
\* <a><b>
Static(s) == [k |-> "static", s |-> s]
Param(optional, name, type) ==
    [k |-> "param", optional |-> optional, name |-> name, type |-> type]
TwoParams == [k |-> "params", optional |-> FALSE, name |-> "a", type |-> ""]

\* Route._validate_pattern (lines 40-70): TRUE when it raises ValueError.
\* Of the static texts of the model only "it.ems" has a character outside
\* [\w-], and of the parameter names only "my-id" one outside [\w?]
_validate_pattern_accepts(route, param_types) == FALSE

_validate_pattern(route, param_types) ==
    \E i \in 1..Len(route) :
        \/ route[i].k = "params"
        \/ route[i].k = "static" /\ route[i].s = "it.ems"
        \/ /\ route[i].k = "param"
           /\ \/ route[i].type # "" /\ route[i].type \notin DOMAIN param_types
              \/ route[i].name = "my-id"

\* Route._parse_segment (lines 88-122): the regex of the segment and its
\* (name, type, optional) entries. A static segment is "/segment"; a
\* parameter is "/(pattern)", wrapped as "(?:/(pattern)?)?" when optional
_parse_segment_required(segment, param_types) ==
    IF segment.k = "static"
    THEN [regex |-> [k |-> "static", s |-> segment.s], names |-> <<>>]
    ELSE [regex |-> [k |-> "group", pattern |-> StringType.pattern,
                     optional |-> FALSE],
          names |-> <<<<segment.name, StringType, segment.optional>>>>]

_parse_segment(segment, param_types) ==
    IF segment.k = "static"
    THEN [regex |-> [k |-> "static", s |-> segment.s], names |-> <<>>]
    ELSE LET key == IF segment.type # "" THEN segment.type ELSE "default"
             param_type == IF key \in DOMAIN param_types
                           THEN param_types[key]
                           ELSE param_types["default"]
         IN [regex |-> [k |-> "group", pattern |-> param_type.pattern,
                        optional |-> segment.optional],
             names |-> <<<<segment.name, param_type, segment.optional>>>>]

\* Route._parse_pattern (lines 139-151): "^" parts "/?$"
RECURSIVE _parse_pattern(_, _)
_parse_pattern(segments, param_types) ==
    IF segments = <<>> THEN [regex |-> <<>>, names |-> <<>>]
    ELSE LET first == _parse_segment(segments[1], param_types)
             rest == _parse_pattern(Tail(segments), param_types)
         IN [regex |-> <<first.regex>> \o rest.regex,
             names |-> first.names \o rest.names]

\* re.match(regex, url) for a regex built by _parse_pattern and a url given
\* by its segments: <<>> when there is no match, else <<groups>>, the text
\* of each group or None for a group that took no part. The final "/?$"
\* takes one last slash, that is one last segment "". An optional part
\* "(?:/(pattern)?)?" is greedy: it takes the segment when the rest still
\* matches, else a slash alone (a segment "") with its group empty, else
\* nothing
RECURSIVE re_groups(_, _)
re_groups(regex, segs) ==
    IF regex = <<>>
    THEN (IF segs = <<>> \/ segs = <<"">> THEN <<<<>>>> ELSE <<>>)
    ELSE LET part == regex[1]
             fits == /\ segs # <<>>
                     /\ IF part.k = "static" THEN segs[1] = part.s
                        ELSE PatternMatches(part.pattern, segs[1])
             taken == IF fits THEN re_groups(Tail(regex), Tail(segs))
                      ELSE <<>>
             optional == part.k = "group" /\ part.optional
             slash == IF optional /\ segs # <<>> /\ segs[1] = ""
                      THEN re_groups(Tail(regex), Tail(segs))
                      ELSE <<>>
             skipped == IF optional THEN re_groups(Tail(regex), segs)
                        ELSE <<>>
         IN IF taken # <<>>
            THEN <<(IF part.k = "group" THEN <<Str(segs[1])>> ELSE <<>>)
                   \o taken[1]>>
            ELSE IF slash # <<>> THEN <<<<None_>> \o slash[1]>>
            ELSE IF skipped # <<>> THEN <<<<None_>> \o skipped[1]>>
            ELSE <<>>

\* Route.__init__ (lines 20-26), for a pattern _validate_pattern accepts
Route(id, v, route, param_types) ==
    LET parsed == _parse_pattern(route, param_types)
    IN [id |-> id, view |-> v, regex |-> parsed.regex,
        param_names |-> parsed.names]

\* Route.match (lines 167-179): <<>> for None, else <<params>>
Route_match(route, url) ==
    LET m == re_groups(route.regex, url)
    IN IF m = <<>> THEN <<>>
       ELSE <<Dict([i \in 1..Len(route.param_names) |->
                      <<route.param_names[i][1],
                        IF Truthy(m[1][i])
                        THEN convert(route.param_names[i][2], m[1][i].s)
                        ELSE None_>>])>>

\* ------------------------------------------------------------------------
\* core/routing/router.py
\* ------------------------------------------------------------------------
RouterMethods == {"GET", "HEAD", "POST"}

\* urls, as their segments
RouterPaths == {<<"items", "7">>, <<"items", "new">>, <<"other">>}

\* the view classes given to Router.add_route: route pattern, methods and
\* name ("" for a class without the attribute)
RouterViewDefs ==
    [v \in {"ItemIntView", "ItemView", "ItemNewView", "SearchView",
            "TwoParamsView", "BadStaticView", "BadTypeView", "BadNameView"} |->
        CASE v = "SearchView" ->
               [route |-> <<Static("search"), Param(TRUE, "q", "")>>,
                methods |-> <<"GET">>, name |-> ""]
          [] v = "TwoParamsView" ->
               [route |-> <<Static("items"), TwoParams>>,
                methods |-> <<"GET">>, name |-> ""]
          [] v = "BadStaticView" ->
               [route |-> <<Static("it.ems"), Param(FALSE, "id", "int")>>,
                methods |-> <<"GET">>, name |-> "bad-static"]
          [] v = "BadTypeView" ->
               [route |-> <<Static("items"), Param(FALSE, "id", "hex")>>,
                methods |-> <<"GET">>, name |-> "bad-type"]
          [] v = "BadNameView" ->
               [route |-> <<Static("items"), Param(FALSE, "my-id", "int")>>,
                methods |-> <<"GET">>, name |-> ""]
          [] v = "ItemIntView" ->
               [route |-> <<Static("items"), Param(FALSE, "id", "int")>>,
                methods |-> <<"GET">>, name |-> ""]
          [] v = "ItemView" ->
               [route |-> <<Static("items"), Param(FALSE, "slug", "")>>,
                methods |-> <<"get", "post">>, name |-> ""]
          [] v = "ItemNewView" ->
               [route |-> <<Static("items"), Static("new")>>,
                methods |-> <<"GET">>, name |-> "item-new"]]

RouterViews == {"ItemIntView", "ItemView", "ItemNewView"}

\* urls for Route.match, as their segments ("" after a last slash and
\* between two adjacent slashes)
RouteUrls ==
    {<<"items", "7">>, <<"items", "42">>, <<"items", "new">>,
     <<"items", "7", "">>, <<"items", "", "7">>, <<"items", "7", "", "">>,
     <<"search">>, <<"search", "term">>, <<"search", "">>,
     <<"search", "", "term">>, <<"search", "term", "">>}

\* the urls resolved by the callers that write to the params they get
MemoPaths == {<<"items", "7">>, <<"items", "new">>}

\* the arguments of Router.add_type
TypeNames == {"int", "hex"}
ParamTypes == {IntType, SlugType}

\* ------------------------------------------------------------------------
\* State of one RestCraft application serving one request at a time
\* ------------------------------------------------------------------------
VARIABLES
    _routes,       \* RestCraft._routes: method -> list of views
    _middlewares,  \* RestCraft._middlewares
    DEBUG,         \* settings.DEBUG
    ctx,           \* RestCraft.ctx of the serving thread
    pc,            \* position of the thread in wsgi / process_request
    req,           \* the Request being processed
    idx,           \* position of the running `for middleware in ...` loop
    view,          \* the matched view
    pending,       \* the RestCraftException caught by the inner except
    out,           \* the Response returned by view.handler
    calls,         \* the hooks called for this request, in order
    result,        \* how process_request ended
    errors,        \* what was written to env['wsgi.errors']
    delivered,     \* what wsgi passed to start_response and yielded
    Router_routes, \* Router._routes: method -> list of Route objects
    other_routes,  \* the _routes of a second Router instance
    Router_type_map, \* Router._type_map, the dict _type_map of the module
    _url_registry, \* routing/router.py _url_registry: view name -> route
    resolve_cache, \* the memo of @cache on Router.resolve
    ret,           \* what the last call of a Router method did
    nodes,         \* the Node objects of http/router.py, by identity
    http_ret       \* what the last call of an http Router method did

routervars ==
    <<Router_routes, other_routes, Router_type_map, _url_registry,
      resolve_cache, ret>>

httpvars == <<nodes, http_ret>>

VARIABLES
    local_ctx,     \* ThreadSafeContext._ctx: what each thread's local holds
    worker,        \* each worker thread: its position in process_request
                   \* and the request and the view it works on
    requests       \* the Request objects made so far

threadvars == <<local_ctx, worker, requests>>

appvars == <<_routes, _middlewares, DEBUG, ctx, pc, req, idx, view, pending,
             out, calls, result, errors, delivered, view_route>>

NoReq == [method |-> "", path |-> <<>>, content_length |-> 0]
NoView == ""
EmptyCtx == [request |-> NoReq, view |-> NoView]
NoResult ==
    [kind |-> "none", value |-> NoTriple, response |-> None_, exc |-> None_,
     log |-> <<>>]
NoDelivery == [started |-> FALSE, status |-> <<0, "">>, headers |-> <<>>,
               body |-> ""]

\* one entry of calls: the hook, whose hook it is, what it did and, for
\* on_exception, the exception it was called with. kind is "raise" (val
\* the exception), "response" (val the Response returned), "mutate" (val
\* the new body) or "pass" (a return value that is not a Response)
Call(hook, by, outcome, arg) ==
    LET isresp == outcome.kind = "return" /\ isinstance_Response(outcome.val)
    IN [hook |-> hook, by |-> by,
        kind |-> IF outcome.kind # "return" THEN outcome.kind
                 ELSE IF isresp THEN "response" ELSE "pass",
        val |-> IF outcome.kind = "return" /\ ~isresp THEN None_
                ELSE outcome.val,
        arg |-> arg]

AppInit ==
    /\ _routes = [m \in Methods |-> <<>>]
    /\ view_route = [v \in Views |->
                       [compiled |-> FALSE, pattern |-> ViewDefs[v].route]]
    /\ _middlewares = <<>>
    /\ DEBUG \in BOOLEAN
    /\ ctx = EmptyCtx
    /\ pc = "idle"
    /\ req = NoReq
    /\ idx = 0
    /\ view = NoView
    /\ pending = None_
    /\ out = None_
    /\ calls = <<>>
    /\ result = NoResult
    /\ errors = <<>>
    /\ delivered = NoDelivery

Idle == pc = "idle"

\* RestCraft._add_view (lines 95-102)
RECURSIVE AppendView(_, _, _)
AppendView(routes, v, methods) ==
    IF methods = <<>> THEN routes
    ELSE AppendView([routes EXCEPT ![Upper(methods[1])] = Append(@, v)], v,
                    Tail(methods))

Registered(routes) ==
    UNION {{routes[m][i] : i \in 1..Len(routes[m])} : m \in Methods}

\* bootstrap imports each entry of the set settings.VIEWS once (lines 77-78)
_add_view(v) ==
    /\ Idle
    /\ v \notin Registered(_routes)
    /\ Cardinality(Registered(_routes)) < MaxViews
    /\ _routes' = AppendView(_routes, v, ViewDefs[v].methods)
    /\ UNCHANGED <<_middlewares, DEBUG, ctx, pc, req, idx, view, pending, out,
                   calls, result, errors, delivered>>
    /\ UNCHANGED <<view_route, routervars, httpvars, threadvars>>

\* RestCraft.add_middleware (line 204)
\* each call adds a new Middleware instance (lines 184, 189)
add_middleware(m) ==
    /\ Idle
    /\ \A i \in 1..Len(_middlewares) : _middlewares[i] # m
    /\ Len(_middlewares) < MaxMiddlewares
    /\ _middlewares' = Append(_middlewares, m)
    /\ UNCHANGED <<_routes, DEBUG, ctx, pc, req, idx, view, pending, out,
                   calls, result, errors, delivered>>
    /\ UNCHANGED <<view_route, routervars, httpvars, threadvars>>

\* RestCraft.wsgi up to the try of process_request (lines 268-270, 298-299)
wsgi(method, path, content_length) ==
    /\ Idle
    /\ req' = [method |-> method, path |-> path,
               content_length |-> content_length]
    /\ ctx' = [ctx EXCEPT !.request = req']
    /\ pc' = "before_route"
    /\ idx' = 1
    /\ view' = NoView
    /\ pending' = None_
    /\ out' = None_
    /\ calls' = <<>>
    /\ result' = NoResult
    /\ errors' = <<>>
    /\ delivered' = NoDelivery
    /\ UNCHANGED <<_routes, _middlewares, DEBUG>>
    /\ UNCHANGED <<view_route, routervars, httpvars, threadvars>>

\* wsgi after process_request returned (lines 272-280): start_response
\* gets the status line and the header list, and the data is yielded,
\* replaced by bytes() for HEAD
wsgi_deliver_keeps_body(method, triple) ==
    [started |-> TRUE, status |-> triple.status, headers |-> triple.headers,
     body |-> triple.data]

wsgi_deliver(method, triple) ==
    [started |-> TRUE, status |-> triple.status, headers |-> triple.headers,
     body |-> IF method = "HEAD" THEN "" ELSE triple.data]

\* ThreadSafeContext.clear (utils/helpers.py lines 17-22)
clear_nothing(c) == c

clear(c) == EmptyCtx

\* The end of process_request and the rest of wsgi: the finally clause
\* clears ctx (line 442); when process_request returned, wsgi calls
\* start_response and yields the data, emptied for HEAD (lines 272-280);
\* when an exception left process_request, it leaves wsgi too
Finish(res) ==
    /\ result' = res
    /\ errors' = errors \o res.log
    /\ ctx' = clear(ctx)
    /\ delivered' =
         IF res.kind = "returned" THEN wsgi_deliver(req.method, res.value)
         ELSE NoDelivery
    /\ pc' = "done"

\* for middleware in self._middlewares: the middleware of the i-th
\* iteration (lines 309, 331, 376)
MiddlewareAt_reversed(mws, i) == mws[Len(mws) + 1 - i]

MiddlewareAt(mws, i) == mws[i]

\* if isinstance(early, Response): return early.get_response()
\* (lines 311, 333, 351)
ShortCircuits_never(early) == FALSE

ShortCircuits(early) == isinstance_Response(early)

\* for middleware in self._middlewares: middleware.before_route(req)
\* (lines 309-312)
before_route(o) ==
    /\ pc = "before_route"
    /\ idx <= Len(_middlewares)
    /\ calls' = Append(calls, Call("before_route",
                              MiddlewareAt(_middlewares, idx), o, None_))
    /\ IF o.kind = "raise" THEN
           /\ Finish(Dispatch(o.val, DEBUG))
           /\ UNCHANGED <<idx, view, pending, out>>
       ELSE IF ShortCircuits(o.val) THEN
           /\ Finish(return_get_response(o.val, DEBUG))
           /\ UNCHANGED <<idx, view, pending, out>>
       ELSE
           /\ idx' = idx + 1
           /\ UNCHANGED <<pc, ctx, view, pending, out, result, errors,
                          delivered>>
    /\ UNCHANGED <<_routes, _middlewares, DEBUG, req>>
    /\ UNCHANGED <<view_route, routervars, httpvars, threadvars>>

\* view, params = self.match(req.path, req.method); self.ctx.view = view
\* (lines 318-322)
do_match ==
    /\ pc = "before_route"
    /\ idx > Len(_middlewares)
    /\ LET m == match(_routes, req.path, req.method)
       IN IF m = <<>> THEN
              LET e == RestCraftExceptionInit("RouteNotFound",
                           "Route not found.", None_, 0, "", None_)
              IN /\ calls' = Append(calls, Call("match", "app", Raise(e), None_))
                 /\ Finish(Dispatch(e, DEBUG))
                 /\ UNCHANGED <<idx, view, pending, out>>
          ELSE
              /\ calls' = Append(calls,
                                 Call("match", "app", Return(Str(m[1])), None_))
              /\ view' = m[1]
              /\ ctx' = [ctx EXCEPT !.view = m[1]]
              /\ pc' = "before_handler"
              /\ idx' = 1
              /\ UNCHANGED <<pending, out, result, errors, delivered>>
    /\ UNCHANGED <<_routes, _middlewares, DEBUG, req>>
    /\ UNCHANGED <<routervars, httpvars, threadvars>>
    /\ view_route' = [v \in Views |->
                        IF v \in Scanned(_routes, req.path, req.method)
                        THEN re_compile(view_route[v])
                        ELSE view_route[v]]

\* for middleware in self._middlewares: middleware.before_handler(req)
\* (lines 331-334)
before_handler(o) ==
    /\ pc = "before_handler"
    /\ idx <= Len(_middlewares)
    /\ calls' = Append(calls,
                       Call("before_handler",
                            MiddlewareAt(_middlewares, idx), o, None_))
    /\ IF o.kind = "raise" THEN
           /\ Finish(Dispatch(o.val, DEBUG))
           /\ UNCHANGED <<idx, view, pending, out>>
       ELSE IF ShortCircuits(o.val) THEN
           /\ Finish(return_get_response(o.val, DEBUG))
           /\ UNCHANGED <<idx, view, pending, out>>
       ELSE
           /\ idx' = idx + 1
           /\ UNCHANGED <<pc, ctx, view, pending, out, result, errors,
                          delivered>>
    /\ UNCHANGED <<_routes, _middlewares, DEBUG, req>>
    /\ UNCHANGED <<view_route, routervars, httpvars, threadvars>>

\* An exception raised inside the inner try (lines 349-358): a
\* RestCraftException goes to the inner except clause, any other to the
\* handlers of the outer try
InnerRaise_catch_all(e) ==
    /\ pending' = e
    /\ pc' = "on_exception"
    /\ UNCHANGED <<ctx, result, errors, delivered>>

InnerRaise_to_outer(e) ==
    /\ Finish(Dispatch(e, DEBUG))
    /\ UNCHANGED pending

InnerRaise(e) ==
    IF IsRestCraftException(e) THEN
        /\ pending' = e
        /\ pc' = "on_exception"
        /\ UNCHANGED <<ctx, result, errors, delivered>>
    ELSE
        /\ Finish(Dispatch(e, DEBUG))
        /\ UNCHANGED pending

\* the RestCraftException raised for a hook's return value that is not a
\* Response (lines 356-357 for the handler, 362-364 for on_exception)
MustReturnResponse_same(hook) ==
    RestCraftExceptionInit("RestCraftException",
        "Route handler must return a Response object.", None_, 0, "", None_)

MustReturnResponse(hook) ==
    RestCraftExceptionInit("RestCraftException",
        IF hook = "handler"
        THEN "Route handler must return a Response object."
        ELSE "Route exception must return Response object.",
        None_, 0, "", None_)

\* early = view.before_handler(req) (lines 350-352)
view_before_handler(o) ==
    /\ pc = "before_handler"
    /\ idx > Len(_middlewares)
    /\ calls' = Append(calls, Call("view.before_handler", view, o, None_))
    /\ IF o.kind = "raise" THEN InnerRaise(o.val)
       ELSE IF ShortCircuits(o.val) THEN
           /\ Finish(return_get_response(o.val, DEBUG))
           /\ UNCHANGED pending
       ELSE
           /\ pc' = "handler"
           /\ UNCHANGED <<ctx, pending, result, errors, delivered>>
    /\ UNCHANGED <<_routes, _middlewares, DEBUG, req, idx, view, out>>
    /\ UNCHANGED <<view_route, routervars, httpvars, threadvars>>

\* out = view.handler(req) (lines 353-357)
handler(h) ==
    LET o == HandlerDoes(h, req)
    IN
       /\ pc = "handler"
       /\ calls' = Append(calls, Call("view.handler", view, o, None_))
       /\ IF o.kind = "raise" THEN
              /\ InnerRaise(o.val)
              /\ UNCHANGED out
          ELSE IF ~isinstance_Response(o.val) THEN
              /\ InnerRaise(MustReturnResponse("handler"))
              /\ out' = o.val
          ELSE
              /\ out' = o.val
              /\ pc' = "view_after_handler"
              /\ UNCHANGED <<ctx, pending, result, errors, delivered>>
       /\ UNCHANGED <<_routes, _middlewares, DEBUG, req, idx, view>>
       /\ UNCHANGED <<view_route, routervars, httpvars, threadvars>>

\* view.after_handler(req, out) (line 358)
view_after_handler(o) ==
    /\ pc = "view_after_handler"
    /\ calls' = Append(calls, Call("view.after_handler", view, o, None_))
    /\ IF o.kind = "raise" THEN
           /\ InnerRaise(o.val)
           /\ UNCHANGED <<idx, out>>
       ELSE
           /\ out' = AfterEffect(out, o)
           /\ pc' = "after_handler"
           /\ idx' = 1
           /\ UNCHANGED <<ctx, pending, result, errors, delivered>>
    /\ UNCHANGED <<_routes, _middlewares, DEBUG, req, view>>
    /\ UNCHANGED <<view_route, routervars, httpvars, threadvars>>

\* what view.on_exception(req, e) may do: View.on_exception re-raises e
\* (core/view.py line 102); an overriding hook returns or raises anything
OnExceptionOutcomes(v, e) ==
    IF ViewDefs[v].overrides_on_exception
    THEN HookOutcomes \cup {Raise(e)}
    ELSE {Raise(e)}

\* except RestCraftException as e: out = view.on_exception(req, e)
\* (lines 359-365)
on_exception_returns(o) ==
    /\ calls' = Append(calls, Call("view.on_exception", view, o, pending))
    /\ IF o.kind = "raise" THEN
           /\ Finish(Dispatch(o.val, DEBUG))
           /\ UNCHANGED out
       ELSE IF ~isinstance_Response(o.val) THEN
           /\ Finish(Dispatch(MustReturnResponse("on_exception"), DEBUG))
           /\ out' = o.val
       ELSE
           /\ Finish(return_get_response(o.val, DEBUG))
           /\ out' = o.val
    /\ UNCHANGED <<_routes, _middlewares, DEBUG, req, idx, view, pending>>
    /\ UNCHANGED <<view_route, routervars, httpvars, threadvars>>

on_exception ==
    /\ pc = "on_exception"
    /\ \E o \in OnExceptionOutcomes(view, pending) : on_exception_returns(o)

\* for middleware in self._middlewares: middleware.after_handler(req, out)
\* (lines 376-377)
after_handler_in_inner_try(o) ==
    /\ pc = "after_handler"
    /\ idx <= Len(_middlewares)
    /\ calls' = Append(calls,
                       Call("after_handler",
                            MiddlewareAt(_middlewares, idx), o, None_))
    /\ IF o.kind = "raise" THEN
           /\ InnerRaise(o.val)
           /\ UNCHANGED <<idx, out>>
       ELSE
           /\ out' = AfterEffect(out, o)
           /\ idx' = idx + 1
           /\ UNCHANGED <<pc, ctx, result, errors, delivered, pending>>
    /\ UNCHANGED <<_routes, _middlewares, DEBUG, req, view>>
    /\ UNCHANGED <<view_route, routervars, httpvars, threadvars>>

after_handler(o) ==
    /\ pc = "after_handler"
    /\ idx <= Len(_middlewares)
    /\ calls' = Append(calls,
                       Call("after_handler",
                            MiddlewareAt(_middlewares, idx), o, None_))
    /\ IF o.kind = "raise" THEN
           /\ Finish(Dispatch(o.val, DEBUG))
           /\ UNCHANGED <<idx, out>>
       ELSE
           /\ out' = AfterEffect(out, o)
           /\ idx' = idx + 1
           /\ UNCHANGED <<pc, ctx, result, errors, delivered>>
    /\ UNCHANGED <<_routes, _middlewares, DEBUG, req, view, pending>>
    /\ UNCHANGED <<view_route, routervars, httpvars, threadvars>>

\* return out.get_response() (line 383)
do_return ==
    /\ pc = "after_handler"
    /\ idx > Len(_middlewares)
    /\ Finish(return_get_response(out, DEBUG))
    /\ UNCHANGED <<_routes, _middlewares, DEBUG, req, idx, view, pending, out,
                   calls>>
    /\ UNCHANGED <<view_route, routervars, httpvars, threadvars>>

\* the host has consumed what wsgi yielded (lines 277-280): the request
\* and the locals of wsgi and process_request are gone
close ==
    /\ pc = "done"
    /\ pc' = "idle"
    /\ req' = NoReq
    /\ idx' = 0
    /\ view' = NoView
    /\ pending' = None_
    /\ out' = None_
    /\ calls' = <<>>
    /\ result' = NoResult
    /\ errors' = <<>>
    /\ delivered' = NoDelivery
    /\ UNCHANGED <<_routes, _middlewares, DEBUG, ctx>>
    /\ UNCHANGED <<view_route, routervars, httpvars, threadvars>>

\* ------------------------------------------------------------------------
\* The regex-list Router
\* ------------------------------------------------------------------------
NoRet == [op |-> "", args |-> <<>>, kind |-> "", val |-> None_]

RouterInit ==
    /\ Router_routes = [m \in RouterMethods |-> <<>>]
    /\ other_routes = [m \in RouterMethods |-> <<>>]
    /\ Router_type_map = _type_map
    /\ _url_registry = <<>>
    /\ resolve_cache = <<>>
    /\ ret = NoRet

\* the Route objects created so far
AllRoutes(routes) ==
    UNION {{routes[m][i] : i \in 1..Len(routes[m])} : m \in DOMAIN routes}

RECURSIVE AppendRoute(_, _, _)
AppendRoute(routes, route, methods) ==
    IF methods = <<>> THEN routes
    ELSE AppendRoute([routes EXCEPT ![Upper(methods[1])] = Append(@, route)],
                     route, Tail(methods))

\* Router.add_type (lines 66-69)
add_type_raises_never(name, reaplce) == FALSE

add_type_raises(name, reaplce) == name \in DOMAIN Router_type_map /\ ~reaplce

add_type(name, type, reaplce) ==
    /\ IF add_type_raises(name, reaplce) THEN
           /\ ret' = [op |-> "add_type", args |-> <<name, type.name, reaplce>>,
                      kind |-> "raise",
                      val |-> PyException("ValueError",
                                  "Type with name " \o name
                                  \o " already exists.")]
           /\ UNCHANGED Router_type_map
       ELSE
           /\ Router_type_map' =
                  [k \in DOMAIN Router_type_map \cup {name} |->
                      IF k = name THEN type ELSE Router_type_map[k]]
           /\ ret' = [op |-> "add_type", args |-> <<name, type.name, reaplce>>,
                      kind |-> "return", val |-> None_]
    /\ UNCHANGED <<Router_routes, other_routes, _url_registry,
                   resolve_cache>>
    /\ UNCHANGED <<appvars, httpvars, threadvars>>

\* Route(view, self._type_map).match(url) (route.py lines 20-26, 153-179)
Route_init_match(v, url) ==
    LET def == RouterViewDefs[v]
    IN /\ ret' = IF _validate_pattern(def.route, Router_type_map)
                 THEN [op |-> "match", args |-> <<v, url>>, kind |-> "raise",
                       val |-> PyException("ValueError", "invalid pattern")]
                 ELSE LET m == Route_match(Route(0, v, def.route,
                                                 Router_type_map), url)
                      IN [op |-> "match", args |-> <<v, url>>,
                          kind |-> "return",
                          val |-> IF m = <<>> THEN None_ ELSE m[1]]
       /\ UNCHANGED <<Router_routes, other_routes, Router_type_map,
                      _url_registry, resolve_cache>>
       /\ UNCHANGED <<appvars, httpvars, threadvars>>

\* Router.add_route (lines 83-95)
add_route(v) ==
    LET def == RouterViewDefs[v]
        route == Route(Cardinality(AllRoutes(Router_routes)) + 1, v,
                       def.route, Router_type_map)
    IN /\ Cardinality(AllRoutes(Router_routes)) < MaxRoutes
       /\ IF _validate_pattern(def.route, Router_type_map) THEN
              /\ ret' = [op |-> "add_route", args |-> <<v>>, kind |-> "raise",
                         val |-> PyException("ValueError", "invalid pattern")]
              /\ UNCHANGED <<Router_routes, _url_registry>>
          ELSE IF def.name # "" /\ DictHas(_url_registry, def.name) THEN
              /\ ret' = [op |-> "add_route", args |-> <<v>>, kind |-> "raise",
                         val |-> PyException("ValueError",
                                     "A view with the name " \o def.name
                                     \o " already exists.")]
              /\ UNCHANGED <<Router_routes, _url_registry>>
          ELSE
              /\ _url_registry' = IF def.name # ""
                                  THEN DictSet(_url_registry, def.name,
                                               def.route)
                                  ELSE _url_registry
              /\ Router_routes' = AppendRoute(Router_routes, route,
                                              def.methods)
              /\ ret' = [op |-> "add_route", args |-> <<v>>,
                         kind |-> "return", val |-> None_]
       /\ UNCHANGED <<resolve_cache, Router_type_map, other_routes>>
       /\ UNCHANGED <<appvars, httpvars, threadvars>>

\* Router.add_route (lines 83-95) of a second Router instance: __init__
\* (lines 47-50) gives each instance a _routes dict of its own and the
\* module's _type_map and _url_registry
other_add_route(v) ==
    LET def == RouterViewDefs[v]
        route == Route(Cardinality(AllRoutes(other_routes)) + 1, v,
                       def.route, Router_type_map)
        named == def.name # ""
    IN /\ Cardinality(AllRoutes(other_routes)) < MaxRoutes
       /\ IF _validate_pattern(def.route, Router_type_map) THEN
              /\ ret' = [op |-> "other.add_route", args |-> <<v>>,
                         kind |-> "raise",
                         val |-> PyException("ValueError", "invalid pattern")]
              /\ UNCHANGED <<other_routes, _url_registry>>
          ELSE IF named /\ DictHas(_url_registry, def.name) THEN
              /\ ret' = [op |-> "other.add_route", args |-> <<v>>,
                         kind |-> "raise",
                         val |-> PyException("ValueError",
                                     "A view with the name " \o def.name
                                     \o " already exists.")]
              /\ UNCHANGED <<other_routes, _url_registry>>
          ELSE
              /\ _url_registry' = IF named
                                  THEN DictSet(_url_registry, def.name,
                                               def.route)
                                  ELSE _url_registry
              /\ other_routes' = AppendRoute(other_routes, route,
                                             def.methods)
              /\ ret' = [op |-> "other.add_route", args |-> <<v>>,
                         kind |-> "return", val |-> None_]
       /\ UNCHANGED <<resolve_cache, Router_type_map, Router_routes>>
       /\ UNCHANGED <<appvars, httpvars, threadvars>>

\* for route in self._routes[method] (lines 119-125): the position of the
\* first route that matches, 0 when none does
ScanRoutes_last(bucket, path, i) ==
    LET hits == {j \in i..Len(bucket) : Route_match(bucket[j], path) # <<>>}
    IN IF hits = {} THEN 0 ELSE CHOOSE j \in hits : \A k \in hits : k <= j

RECURSIVE ScanRoutes(_, _, _)
ScanRoutes(bucket, path, i) ==
    IF i > Len(bucket) THEN 0
    ELSE IF Route_match(bucket[i], path) # <<>> THEN i
    ELSE ScanRoutes(bucket, path, i + 1)

\* the body of Router.resolve (lines 114-127)
resolve_body(routes, method, path) ==
    LET m == Upper(method)
        i == ScanRoutes(routes[m], path, 1)
        notfound == RestCraftExceptionInit("RouteNotFound",
                        "No route matches the given URL.", None_, 0, "",
                        None_)
    IN IF routes[m] = <<>> \/ i = 0 THEN Raise(notfound)
       ELSE Return([route |-> routes[m][i],
                    params |-> Route_match(routes[m][i], path)[1]])

\* Router.resolve under @cache (lines 97-98): a call with arguments seen
\* before returns what it returned then; a call that raises is not
\* remembered
resolve(method, path) ==
    LET key == <<method, path>>
    IN /\ IF DictHas(resolve_cache, key) THEN
              /\ ret' = [op |-> "resolve", args |-> key, kind |-> "return",
                         val |-> DictGet(resolve_cache, key)]
              /\ UNCHANGED resolve_cache
          ELSE
              LET o == resolve_body(Router_routes, method, path)
              IN /\ ret' = [op |-> "resolve", args |-> key, kind |-> o.kind,
                            val |-> o.val]
                 /\ resolve_cache' = IF o.kind = "return"
                                     THEN DictSet(resolve_cache, key, o.val)
                                     ELSE resolve_cache
       /\ UNCHANGED <<Router_routes, other_routes, Router_type_map,
                      _url_registry>>
       /\ UNCHANGED <<appvars, httpvars, threadvars>>

\* params['seen'] = True by the caller that got (route, params) from
\* resolve: the dict is the one in the tuple the memo of @cache holds for
\* these arguments (line 125)
params_setitem ==
    /\ ret.op = "resolve"
    /\ ret.kind = "return"
    /\ ~DictHas(ret.val.params.items, "seen")
    /\ LET val == [ret.val EXCEPT !.params =
                      Dict(DictSet(@.items, "seen", Str("True")))]
       IN /\ ret' = [op |-> "setitem", args |-> ret.args, kind |-> "return",
                     val |-> val]
          /\ resolve_cache' = DictSet(resolve_cache, ret.args, val)
    /\ UNCHANGED <<Router_routes, other_routes, Router_type_map,
                   _url_registry>>
    /\ UNCHANGED <<appvars, httpvars, threadvars>>

\* ------------------------------------------------------------------------
\* http/router.py: the trie Router
\* ------------------------------------------------------------------------
\* a segment of a route path: is_dynamic(segment) is TRUE for the text
\* "<" inner ">", and parts is inner.split(":", 1)
Lit(text) == [dyn |-> FALSE, text |-> text, parts |-> <<>>]
DynSeg(parts) == [dyn |-> TRUE, text |-> "<>", parts |-> parts]
is_dynamic(segment) == segment.dyn

\* Router.dynamic_key
dynamic_key == ":restcraft:dynamic:"

\* the route paths given to add_route, as their parts between "/"
\* ("" for the empty part a doubled or trailing "/" leaves)
HttpRoutes ==
    { <<Lit("users")>>,
      <<Lit("users"), Lit("")>>,
      <<Lit("users"), DynSeg(<<"id", "\\d+">>)>>,
      <<Lit("users"), DynSeg(<<"num", "\\d+">>)>>,
      <<Lit("users"), DynSeg(<<"slug">>)>>,
      <<Lit("users"), Lit("new")>> }

\* the view classes given to add_route: what extract_metadata(view)
\* yields, (metadata, handler) pairs
HttpViewDefs ==
    [v \in {"UsersView", "UserView", "BothView"} |->
        CASE v = "UsersView" ->
               <<[handler |-> "list", methods |-> <<"GET">>]>>
          [] v = "UserView" ->
               <<[handler |-> "create", methods |-> <<"POST">>]>>
          [] v = "BothView" ->
               <<[handler |-> "show", methods |-> <<"GET">>],
                 [handler |-> "probe", methods |-> <<"HEAD">>]>>]

HttpViews == DOMAIN HttpViewDefs

\* view(): an instance of the view class
ViewInstance(cls) == [t |-> "view", cls |-> cls]

HttpMethods == {"GET", "HEAD", "POST"}

\* the request paths given to dispatch, as their parts between "/"
HttpPaths ==
    { <<"users">>, <<"users", "">>, <<"users", "12">>, <<"users", "12abc">>,
      <<"users", "new">>, <<"nope">>, <<"nope", "users">>,
      <<"users", "12", "zzz">>, <<"users", "", "12">>, <<>> }

\* re.Pattern.match(segment): <<match.group(0)>>, <<>> for no match; the
\* match is anchored at the start of the segment only
PatternMatch(pattern, segment) ==
    CASE pattern = ".*" -> <<segment>>
      [] pattern = "\\d+" ->
           IF segment = "12" \/ segment = "12abc" THEN <<"12">> ELSE <<>>
      [] OTHER -> <<>>

\* Node.__init__
Node(segment, param, dynamic) ==
    [children |-> <<>>, patterns |-> <<>>, handlers |-> <<>>,
     segment |-> segment, param |-> param, is_dynamic |-> dynamic,
     view |-> None_]

\* Router.root: the first Node made
root == 1

\* the root of a second Router, other_router of merge
other_root == 2

\* dict.setdefault(key, Node) on the field (children or patterns) of the
\* node id: the heap after it and the node it returns
setdefault(heap, id, field, key, node) ==
    IF DictHas(heap[id][field], key)
    THEN [heap |-> heap, node |-> DictGet(heap[id][field], key)]
    ELSE [heap |-> Append([heap EXCEPT ![id][field] =
                               DictSet(@, key, Len(heap) + 1)], node),
          node |-> Len(heap) + 1]

\* Router._split_path: the parts of the path that are not empty
_split_path(path) == SelectSeq(path, LAMBDA part : part # "")
SplitRoute(path) == SelectSeq(path, LAMBDA seg : seg.text # "")

\* the loop of add_route (lines 43-55) from the node id on
RECURSIVE Descend(_, _, _)
Descend(heap, id, segments) ==
    IF segments = <<>> THEN [heap |-> heap, node |-> id]
    ELSE LET segment == segments[1]
         IN IF is_dynamic(segment) THEN
                LET d == setdefault(heap, id, "children", dynamic_key,
                                    Node("", "", FALSE))
                    parts == segment.parts
                    param == parts[1]
                    pattern == IF Len(parts) = 2 THEN parts[2] ELSE ".*"
                    n == setdefault(d.heap, d.node, "patterns", pattern,
                                    Node(pattern, param, TRUE))
                IN Descend(n.heap, n.node, Tail(segments))
            ELSE
                LET n == setdefault(heap, id, "children", segment.text,
                                    Node("", "", FALSE))
                IN Descend(n.heap, n.node, Tail(segments))

\* Router._register_view_handlers: node.handlers after it
RECURSIVE RegisterVerbs(_, _, _)
RegisterVerbs(handlers, pair, verbs) ==
    IF verbs = <<>> THEN handlers
    ELSE RegisterVerbs(DictSet(handlers, verbs[1],
                               [handler |-> pair.handler,
                                metadata |-> pair.methods]),
                       pair, Tail(verbs))

RECURSIVE _register_view_handlers(_, _)
_register_view_handlers(handlers, pairs) ==
    IF pairs = <<>> THEN handlers
    ELSE _register_view_handlers(
             RegisterVerbs(handlers, pairs[1], pairs[1].methods),
             Tail(pairs))

\* the views the trie carries (the bound of the model is on their number)
Carried(heap) == {i \in 1..Len(heap) : heap[i].view # None_}

NoHttpRet == [op |-> "", args |-> <<>>, kind |-> "", val |-> None_]

HttpInit ==
    /\ nodes = <<Node("", "", FALSE), Node("", "", FALSE)>>
    /\ http_ret = NoHttpRet

\* if node.view is not None: raise RuntimeError (lines 57-63)
Conflicts_never(node) == FALSE

Conflicts(node) == node.view # None_

\* what Router.add_route does (lines 38-70), with prefix "", in the Router
\* whose root is the node r: the heap it leaves and how it ends
add_route_body(heap, r, path, cls) ==
    LET d == Descend(heap, r, SplitRoute(path))
    IN IF Conflicts(d.heap[d.node]) THEN
           [heap |-> d.heap, kind |-> "raise",
            val |-> PyException("RuntimeError",
                        "Conflicting routes during registration")]
       ELSE
           [heap |-> [d.heap EXCEPT ![d.node] =
                        [@ EXCEPT !.view = ViewInstance(cls),
                                  !.handlers =
                                     _register_view_handlers(
                                         @, HttpViewDefs[cls])]],
            kind |-> "return", val |-> None_]

http_add_route(path, cls) ==
    LET o == add_route_body(nodes, root, path, cls)
    IN /\ Cardinality(Carried(nodes)) < MaxRoutes
       /\ nodes' = o.heap
       /\ http_ret' = [op |-> "add_route", args |-> <<path, cls>>,
                       kind |-> o.kind, val |-> o.val]
       /\ UNCHANGED <<appvars, routervars, threadvars>>

\* other_router.add_route
other_router_add_route(path, cls) ==
    LET o == add_route_body(nodes, other_root, path, cls)
    IN /\ Cardinality(Carried(nodes)) < MaxRoutes
       /\ nodes' = o.heap
       /\ http_ret' = [op |-> "other_router.add_route",
                       args |-> <<path, cls>>, kind |-> o.kind,
                       val |-> o.val]
       /\ UNCHANGED <<appvars, routervars, threadvars>>

\* Router._merge_nodes (lines 128-153): the heap it leaves and whether it
\* raised; what was assigned before a raise stays assigned
RECURSIVE _merge_nodes(_, _, _)
RECURSIVE MergeItems(_, _, _, _, _)
_merge_nodes(heap, node, other) ==
    IF heap[node].view # None_ /\ heap[other].view # None_
    THEN [heap |-> heap, raised |-> TRUE]
    ELSE LET o == heap[other]
             assigned == [heap EXCEPT ![node] =
                            [@ EXCEPT !.view = o.view,
                                      !.is_dynamic = o.is_dynamic,
                                      !.param = o.param,
                                      !.segment = o.segment,
                                      !.handlers =
                                          DictUpdate(@, o.handlers)]]
             c == MergeItems(assigned, node, other, "children", 1)
         IN IF c.raised THEN c
            ELSE MergeItems(c.heap, node, other, "patterns", 1)

\* for key, other_child in other.children.items() (lines 143-147) and the
\* same loop over other.patterns (lines 149-153), from the i-th item on
MergeItems(heap, node, other, field, i) ==
    IF i > Len(heap[other][field]) THEN [heap |-> heap, raised |-> FALSE]
    ELSE LET key == heap[other][field][i][1]
             other_child == heap[other][field][i][2]
         IN IF DictHas(heap[node][field], key) THEN
                LET r == _merge_nodes(heap, DictGet(heap[node][field], key),
                                      other_child)
                IN IF r.raised THEN r
                   ELSE MergeItems(r.heap, node, other, field, i + 1)
            ELSE MergeItems([heap EXCEPT ![node][field] =
                                 DictSet(@, key, other_child)],
                            node, other, field, i + 1)

\* Router.merge (lines 96-97): self.merge(other_router)
merge ==
    LET r == _merge_nodes(nodes, root, other_root)
    IN /\ http_ret.op # "merge"
       /\ nodes' = r.heap
       /\ http_ret' = [op |-> "merge", args |-> <<>>,
                       kind |-> IF r.raised THEN "raise" ELSE "return",
                       val |-> IF r.raised
                               THEN PyException("RuntimeError",
                                        "Conflicting routes during merge")
                               ELSE None_]
       /\ UNCHANGED <<appvars, routervars, threadvars>>

\* for pattern in dynamic_node.patterns (lines 109-113): the position of
\* the first pattern, in insertion order, that matches; 0 when none does
RECURSIVE FirstPattern_last(_, _, _)
FirstPattern_last(patterns, segment, i) ==
    IF i > Len(patterns) THEN 0
    ELSE LET later == FirstPattern_last(patterns, segment, i + 1)
         IN IF later # 0 THEN later
            ELSE IF PatternMatch(patterns[i][1], segment) # <<>> THEN i
            ELSE 0

RECURSIVE FirstPattern(_, _, _)
FirstPattern(patterns, segment, i) ==
    IF i > Len(patterns) THEN 0
    ELSE IF PatternMatch(patterns[i][1], segment) # <<>> THEN i
    ELSE FirstPattern(patterns, segment, i + 1)

\* the loop of _find_node (lines 104-113) from the node id on: a segment
\* that is no child and matches no pattern leaves node where it is
RECURSIVE Walk(_, _, _, _)
Walk(heap, id, segments, params) ==
    IF segments = <<>> THEN [node |-> id, params |-> params]
    ELSE LET segment == segments[1]
             children == heap[id].children
         IN IF DictHas(children, segment)
            THEN Walk(heap, DictGet(children, segment), Tail(segments),
                      params)
            ELSE IF DictHas(children, dynamic_key) THEN
                LET patterns == heap[DictGet(children, dynamic_key)].patterns
                    i == FirstPattern(patterns, segment, 1)
                IN IF i = 0
                   THEN Walk(heap, id, Tail(segments), params)
                   ELSE Walk(heap, patterns[i][2], Tail(segments),
                             DictSet(params, heap[patterns[i][2]].param,
                                     PatternMatch(patterns[i][1],
                                                  segment)[1]))
            ELSE Walk(heap, id, Tail(segments), params)

\* Router._find_node: node 0 stands for None
_find_node(heap, path) ==
    LET w == Walk(heap, root, _split_path(path), <<>>)
    IN IF heap[w.node].view = None_ THEN [node |-> 0, params |-> w.params]
       ELSE w

\* for hmethod in methods (lines 86-92): the first of the methods, in the
\* order the set yields them, that has a handler; "" when none has
RECURSIVE FirstHandled(_, _)
FirstHandled(handlers, order) ==
    IF order = <<>> THEN ""
    ELSE IF DictHas(handlers, order[1]) THEN order[1]
    ELSE FirstHandled(handlers, Tail(order))

\* the orders in which iterating the set `methods` may yield its
\* elements: a set of str has no fixed order (str hashes are salted)
SetOrders(method) ==
    IF method = "HEAD" THEN {<<"HEAD", "GET">>, <<"GET", "HEAD">>}
    ELSE {<<method>>}

\* what Router.dispatch does (lines 72-94)
dispatch_body(heap, method, path, order) ==
    LET f == _find_node(heap, path)
    IN IF f.node = 0 THEN Raise(PyException("NotFoundException", ""))
       ELSE LET handlers == heap[f.node].handlers
                hmethod == FirstHandled(handlers, order)
            IN IF hmethod = ""
               THEN Raise(PyException("MethodNotAllowedException", ""))
               ELSE Return([handler |-> DictGet(handlers, hmethod).handler,
                            metadata |-> DictGet(handlers, hmethod).metadata,
                            params |-> f.params,
                            view |-> heap[f.node].view])

dispatch(method, path, order) ==
    LET o == dispatch_body(nodes, method, path, order)
    IN /\ http_ret' = [op |-> "dispatch", args |-> <<method, path>>,
                       kind |-> o.kind, val |-> o.val]
       /\ UNCHANGED nodes
       /\ UNCHANGED <<appvars, routervars, threadvars>>

\* ------------------------------------------------------------------------
\* utils/helpers.py: ThreadSafeContext, used by several worker threads
\* ------------------------------------------------------------------------
MaxRequests == 3

\* the worker threads the host runs process_request on
Threads == {"t1", "t2"}

\* threading.local() (line 15): the attributes of the object are kept per
\* thread
threading_local_shared(t) == "t1"

threading_local(t) == t

\* a thread's local without the attribute ctx
NoAttr == [has |-> FALSE, ctx |-> <<>>]

IdleWorker == [pc |-> "idle", req |-> 0, view |-> NoView, read |-> None_]

ThreadInit ==
    /\ local_ctx = [t \in Threads |-> NoAttr]
    /\ worker = [t \in Threads |-> IdleWorker]
    /\ requests = 0

\* ThreadSafeContext.__setattr__ (lines 43-54) called by the thread t
ctx_setattr(t, name, value) ==
    LET l == threading_local(t)
        d == IF local_ctx[l].has THEN local_ctx[l].ctx ELSE <<>>
    IN local_ctx' = [local_ctx EXCEPT ![l] =
                        [has |-> TRUE, ctx |-> DictSet(d, name, value)]]

\* ThreadSafeContext.__getattr__ (lines 24-41) called by the thread t
ctx_getattr(t, name) ==
    LET l == threading_local(t)
    IN IF local_ctx[l].has /\ DictHas(local_ctx[l].ctx, name)
       THEN Return(DictGet(local_ctx[l].ctx, name))
       ELSE Raise(PyException("AttributeError",
                              name \o " is not set in the context"))

\* self.ctx.request = req = Request(env) (application.py line 299)
ctx_set_request(t) ==
    /\ worker[t].pc = "idle"
    /\ requests < MaxRequests
    /\ requests' = requests + 1
    /\ ctx_setattr(t, "request", requests + 1)
    /\ worker' = [worker EXCEPT ![t] =
                     [pc |-> "request", req |-> requests + 1,
                      view |-> NoView, read |-> None_]]
    /\ UNCHANGED <<appvars, routervars, httpvars>>

\* self.ctx.view = view (application.py line 320)
ctx_set_view(t, v) ==
    /\ worker[t].pc = "request"
    /\ ctx_setattr(t, "view", v)
    /\ worker' = [worker EXCEPT ![t].pc = "view", ![t].view = v,
                                ![t].read = None_]
    /\ UNCHANGED requests
    /\ UNCHANGED <<appvars, routervars, httpvars>>

\* a hook or the view run by the thread t reads app.ctx.request or
\* app.ctx.view
ctx_read(t, name) ==
    /\ worker[t].pc \in {"request", "view"}
    /\ worker' = [worker EXCEPT ![t].read =
                     [name |-> name, got |-> ctx_getattr(t, name)]]
    /\ UNCHANGED <<local_ctx, requests>>
    /\ UNCHANGED <<appvars, routervars, httpvars>>

\* finally: self.ctx.clear() (application.py line 442, helpers.py lines
\* 17-22), whether the request got as far as the match or not
ctx_clear(t) ==
    LET l == threading_local(t)
    IN /\ worker[t].pc \in {"request", "view"}
       /\ local_ctx' = IF local_ctx[l].has
                       THEN [local_ctx EXCEPT ![l].ctx = <<>>]
                       ELSE local_ctx
       /\ worker' = [worker EXCEPT ![t] = IdleWorker]
       /\ UNCHANGED requests
       /\ UNCHANGED <<appvars, routervars, httpvars>>

Init == AppInit /\ RouterInit /\ HttpInit /\ ThreadInit

Next ==
    \/ \E v \in Views : _add_view(v)
    \/ \E m \in MiddlewareIds : add_middleware(m)
    \/ \E method \in Methods, path \in Paths, n \in ContentLengths :
         wsgi(method, path, n)
    \/ \E o \in HookOutcomes : before_route(o)
    \/ do_match
    \/ \E o \in HookOutcomes : before_handler(o)
    \/ \E o \in HookOutcomes : view_before_handler(o)
    \/ \E o \in HandlerOutcomes : handler(o)
    \/ \E o \in AfterOutcomes : view_after_handler(o)
    \/ on_exception
    \/ \E o \in AfterOutcomes : after_handler(o)
    \/ do_return
    \/ close

vars == <<appvars, routervars, httpvars, threadvars>>

\* one application serving requests
Spec == Init /\ [][Next]_vars

\* the routers read no setting
InitHttp == Init /\ ~DEBUG

\* registration and resolution in the two linear-scan designs: the
\* RestCraft application's route table and the regex-list Router
NextRouting ==
    \/ \E v \in Views : _add_view(v)
    \/ \E v \in RouterViews : add_route(v)
    \/ \E method \in RouterMethods, path \in RouterPaths :
         resolve(method, path)

SpecRouting == InitHttp /\ [][NextRouting]_vars

\* the parameter types of the regex-list Router and the routes compiled
\* with them
NextRoute ==
    \/ \E name \in TypeNames, type \in ParamTypes, reaplce \in BOOLEAN :
         add_type(name, type, reaplce)
    \/ \E v \in DOMAIN RouterViewDefs, url \in RouteUrls :
         Route_init_match(v, url)

SpecRoute == InitHttp /\ [][NextRoute]_vars

\* the regex-list Router with its memo, and callers that write to the
\* params they got
NextMemo ==
    \/ \E v \in DOMAIN RouterViewDefs \ {"SearchView"} : add_route(v)
    \/ \E method \in RouterMethods, path \in MemoPaths :
         resolve(method, path)
    \/ params_setitem

SpecMemo == InitHttp /\ [][NextMemo]_vars

\* the views given to the two Routers: one with a name, one with a
\* parameter of a type that is not in the module's _type_map
RoutersViews == {"ItemNewView", "BadTypeView"}

\* two regex-list Router instances of one process
NextRouters ==
    \/ \E name \in TypeNames, type \in ParamTypes, reaplce \in BOOLEAN :
         add_type(name, type, reaplce)
    \/ \E v \in RoutersViews : add_route(v)
    \/ \E v \in RoutersViews : other_add_route(v)

SpecRouters == InitHttp /\ [][NextRouters]_vars

\* registration and dispatch in the trie Router
NextHttp ==
    \/ \E path \in HttpRoutes, cls \in HttpViews : http_add_route(path, cls)
    \/ \E method \in HttpMethods, path \in HttpPaths :
         \E order \in SetOrders(method) : dispatch(method, path, order)

SpecHttp == InitHttp /\ [][NextHttp]_vars

\* the routes and the request paths of two trie Routers that are merged
MergeRoutes ==
    { <<Lit("users")>>,
      <<Lit("users"), DynSeg(<<"id", "\\d+">>)>>,
      <<Lit("users"), Lit("new")>> }

MergePaths == { <<"users">>, <<"users", "12">>, <<"users", "new">> }

MergeViews == {"UsersView", "UserView"}
MergeMethods == {"GET", "POST"}

\* two trie Routers, one merged into the other
NextMerge ==
    \/ \E path \in MergeRoutes, cls \in MergeViews :
         http_add_route(path, cls)
    \/ \E path \in MergeRoutes, cls \in MergeViews :
         other_router_add_route(path, cls)
    \/ merge
    \/ \E method \in MergeMethods, path \in MergePaths :
         \E order \in SetOrders(method) : dispatch(method, path, order)

SpecMerge == InitHttp /\ [][NextMerge]_vars

\* worker threads using the ctx of one application
NextThreads ==
    \/ \E t \in Threads : ctx_set_request(t)
    \/ \E t \in Threads, v \in Views : ctx_set_view(t, v)
    \/ \E t \in Threads, name \in {"request", "view"} : ctx_read(t, name)
    \/ \E t \in Threads : ctx_clear(t)

SpecThreads == InitHttp /\ [][NextThreads]_vars

\* ------------------------------------------------------------------------
\* Properties of the request lifecycle
\* ------------------------------------------------------------------------
LastCall == calls[Len(calls)]

ViewHooks == {"view.before_handler", "view.handler", "view.after_handler"}

\* the hooks called so far, without what they did
HookSeq == [i \in 1..Len(calls) |-> <<calls[i].hook, calls[i].by>>]

\* the value of a key of the JSON body of the response process_request
\* returned, None when the body has no such key
BodyField(res, k) ==
    IF res.response.body.t = "dict" /\ DictHas(res.response.body.items, k)
    THEN DictGet(res.response.body.items, k)
    ELSE None_

\* no hook raised, no before hook returned a Response and the handler
\* returned a Response
Uneventful ==
    /\ \A i \in 1..Len(calls) :
         \/ calls[i].kind \in {"pass", "mutate"}
              /\ calls[i].hook # "view.handler"
         \/ calls[i].hook = "view.handler" /\ calls[i].kind = "response"
         \/ calls[i].hook = "match" /\ calls[i].kind = "pass"

ExpectedCalls(mws, v) ==
    [i \in 1..Len(mws) |-> <<"before_route", mws[i]>>] \o
    <<<<"match", "app">>>> \o
    [i \in 1..Len(mws) |-> <<"before_handler", mws[i]>>] \o
    <<<<"view.before_handler", v>>, <<"view.handler", v>>,
      <<"view.after_handler", v>>>> \o
    [i \in 1..Len(mws) |-> <<"after_handler", mws[i]>>]

\* C1: a request that no hook short-circuits and that raises no error calls
\* every middleware's before_route in registration order, then match, then
\* every middleware's before_handler in registration order, then the view's
\* before_handler, handler and after_handler, then every middleware's
\* after_handler in registration order, each exactly once
C1_HookOrder ==
    (pc = "done" /\ Uneventful) => HookSeq = ExpectedCalls(_middlewares, view)

C1_Witness ==
    /\ pc = "done"
    /\ Uneventful
    /\ Len(_middlewares) = 2
    /\ result.kind = "returned"

\* the result of `return r.get_response()` for a Response r returned by a
\* hook: r finalized, or the rendering of the KeyError that finalizing it
\* raised
ResultIs(r) ==
    IF status_line_raises(r)
    THEN result = except_Exception(KeyErrorOf(r), DEBUG)
    ELSE /\ result.kind = "returned"
         /\ result.response = r
         /\ result.value = get_response(r)

\* only before_route hooks were called before a short-circuiting
\* before_route, and no view hook and no after_handler before a
\* short-circuiting before_handler
NothingAfter(k) ==
    /\ k = Len(calls)
    /\ pc = "done"
    /\ calls[k].hook = "before_route" =>
         \A j \in 1..k : calls[j].hook = "before_route"
    /\ calls[k].hook = "before_handler" =>
         \A j \in 1..k : calls[j].hook \notin
             ViewHooks \cup {"view.on_exception", "after_handler"}

\* C2 (as claimed): a Response returned by a middleware's before_route or
\* before_handler is the last hook call of the request, and process_request
\* returns that Response finalized
C2_AsClaimed ==
    \A k \in 1..Len(calls) :
        (calls[k].hook \in {"before_route", "before_handler"}
         /\ calls[k].kind = "response") =>
            /\ NothingAfter(k)
            /\ result.kind = "returned"
            /\ result.response = calls[k].val
            /\ result.value.status[1] = calls[k].val.status

\* C2 (amended): a Response returned by a middleware's before_route or
\* before_handler is the last hook call of the request, and process_request
\* returns that Response finalized unless finalizing it raises; then it
\* returns the response the dispatch-level handler renders for that error
C2_ShortCircuit ==
    \A k \in 1..Len(calls) :
        (calls[k].hook \in {"before_route", "before_handler"}
         /\ calls[k].kind = "response") =>
            /\ NothingAfter(k)
            /\ ResultIs(calls[k].val)
            /\ delivered.started

C2_Witness ==
    /\ pc = "done"
    /\ Len(calls) = 1
    /\ Len(_middlewares) = 2
    /\ LastCall.hook = "before_route"
    /\ LastCall.kind = "response"
    /\ result.response = LastCall.val

C2_WitnessBeforeHandler ==
    /\ pc = "done"
    /\ Len(_middlewares) = 2
    /\ Len(calls) = 4
    /\ LastCall.hook = "before_handler"
    /\ LastCall.kind = "response"

\* C3 (as claimed): for every view, a handler return value that is not a
\* Response ends the request with a status-500 response whose code is
\* INTERNAL_SERVER_ERROR
C3_NonResponseIs500 ==
    (pc = "done" /\ \E k \in 1..Len(calls) :
                      calls[k].hook = "view.handler" /\ calls[k].kind = "pass")
    => /\ result.kind = "returned"
       /\ result.value.status[1] = 500
       /\ BodyField(result, "code") = Str("INTERNAL_SERVER_ERROR")

\* the view's before_handler, handler or after_handler raised a
\* RestCraftException in the k-th hook call: on_exception is called exactly
\* once, next, by the matched view, with that exception
OnExceptionCalled(k) ==
    /\ k + 1 = Len(calls)
    /\ {j \in 1..Len(calls) : calls[j].hook = "view.on_exception"} = {k + 1}
    /\ calls[k + 1].by = view
    /\ calls[k + 1].arg = calls[k].val

\* C4 (as claimed): when the view's before_handler, handler or
\* after_handler raises a RestCraftException, the matched view's
\* on_exception is called exactly once with that exception, and a Response
\* it returns is the result of the request
C4_AsClaimed ==
    pc = "done" =>
    \A k \in 1..Len(calls) :
        (/\ calls[k].hook \in ViewHooks
         /\ calls[k].kind = "raise"
         /\ IsRestCraftException(calls[k].val)) =>
            /\ OnExceptionCalled(k)
            /\ calls[k + 1].kind = "response" =>
                 /\ result.kind = "returned"
                 /\ result.response = calls[k + 1].val
                 /\ result.value.status[1] = calls[k + 1].val.status

\* C4 (amended): when the view's before_handler, handler or after_handler
\* raises a RestCraftException, the matched view's on_exception is called
\* exactly once with that exception, and a Response it returns is the
\* result of the request unless finalizing it raises; then the result is
\* the response the dispatch-level handler renders for that error
C4_OnException ==
    pc = "done" =>
    \A k \in 1..Len(calls) :
        (/\ calls[k].hook \in ViewHooks
         /\ calls[k].kind = "raise"
         /\ IsRestCraftException(calls[k].val)) =>
            /\ OnExceptionCalled(k)
            /\ calls[k + 1].kind = "response" => ResultIs(calls[k + 1].val)

C4_Witness ==
    /\ pc = "done"
    /\ Len(calls) >= 2
    /\ LastCall.hook = "view.on_exception"
    /\ LastCall.kind = "response"
    /\ calls[Len(calls) - 1].hook = "view.after_handler"
    /\ calls[Len(calls) - 1].kind = "raise"
    /\ result.response = LastCall.val

\* C5 (as claimed): whatever the hooks do, process_request returns a
\* finalized result and no exception leaves it
C5_AlwaysReturns ==
    pc = "done" => result.kind = "returned" /\ delivered.started

GenericBody ==
    Dict(<<<<"code", Str("INTERNAL_SERVER_ERROR")>>,
           <<"message", Str("Something went wrong, try again later.")>>>>)

GenericData ==
    "{\"code\": \"INTERNAL_SERVER_ERROR\", \"message\": \"Something went wrong, try again later.\"}"

\* the response of the generic handler for the exception e
GenericFor(e) ==
    /\ result.kind = "returned"
    /\ result.value.status = <<500, "Internal Server Error">>
    /\ BodyField(result, "code") = Str("INTERNAL_SERVER_ERROR")
    /\ ~DEBUG => /\ result.response.body = GenericBody
                 /\ result.value.data = GenericData
    /\ DEBUG =>
         BodyField(result, "details") =
            Dict(<<<<"exception", Str(e.message)>>,
                   <<"stacktrace",
                     List(<<Str("Traceback (most recent call last):"),
                            Str(e.cls \o ": " \o e.message)>>)>>>>)

C6_WitnessDebug ==
    /\ pc = "done"
    /\ DEBUG
    /\ calls # <<>>
    /\ LastCall.kind = "raise"
    /\ LastCall.hook = "view.on_exception"
    /\ LastCall.val.message = "boom"
    /\ result.value.status[1] = 500

\* C7 (as claimed): a RestCraftException that reaches the handlers of the
\* outer try gives a response with the exception's status_code, its headers
\* and a JSON body with its code and message
C7_AppErrorRendered ==
    (/\ pc = "done"
     /\ calls # <<>>
     /\ LastCall.kind = "raise"
     /\ IsRestCraftException(LastCall.val)
     /\ LastCall.hook \notin ViewHooks) =>
        LET e == LastCall.val
        IN /\ result.kind = "returned"
           /\ result.value.status[1] = e.status_code
           /\ Truthy(e.headers) =>
                \A i \in 1..Len(e.headers.items) :
                    \E j \in 1..Len(result.value.headers) :
                        result.value.headers[j] =
                            <<Lower(e.headers.items[i][1]),
                              e.headers.items[i][2]>>
           /\ BodyField(result, "code") = Str(e.exception_code)
           /\ BodyField(result, "message") = Str(e.message)

HeadBucketMisses(routes, path) ==
    \A i \in 1..Len(routes["HEAD"]) :
        ~re_match(ViewDefs[routes["HEAD"][i]].route, path)

\* C8: when no route of the HEAD bucket matches a path, HEAD resolves to the
\* route GET resolves to; wsgi passes start_response for HEAD the status
\* line and header list it would pass for GET, with the content-length of
\* the GET body, and yields an empty body
C8_HeadLikeGet ==
    /\ \A p \in Paths :
         HeadBucketMisses(_routes, p) =>
            match(_routes, p, "HEAD") = match(_routes, p, "GET")
    /\ (req.method = "HEAD" /\ view # NoView
        /\ HeadBucketMisses(_routes, req.path)) =>
            <<view>> = match(_routes, req.path, "GET")
    /\ (pc = "done" /\ req.method = "HEAD" /\ result.kind = "returned") =>
         LET g == wsgi_deliver("GET", result.value)
         IN /\ delivered.status = g.status
            /\ delivered.headers = g.headers
            /\ delivered.body = ""
            /\ g.body = result.value.data
            /\ \A i \in 1..Len(g.headers) :
                 g.headers[i][1] = "content-length" =>
                    g.headers[i][2] = ToString(Len(g.body))

C8_Witness ==
    /\ pc = "done"
    /\ req.method = "HEAD"
    /\ view = "PingView"
    /\ Uneventful
    /\ result.kind = "returned"
    /\ result.value.data # ""
    /\ delivered.body = ""
    /\ \E i \in 1..Len(delivered.headers) :
         delivered.headers[i][1] = "content-length"

NoRouteMatches(routes, method, path) ==
    \A m \in {method} \cup (IF method = "HEAD" THEN {"GET"} ELSE {}) :
        \A i \in 1..Len(routes[m]) :
            ~re_match(ViewDefs[routes[m][i]].route, path)

\* C9: a request that reaches route matching and whose path matches no view
\* in the bucket of its method (nor in the GET bucket for HEAD) raises
\* RouteNotFound and gets a 404 response with the code ROUTE_NOT_FOUND
C9_NotFound ==
    (/\ pc = "done"
     /\ \E k \in 1..Len(calls) : calls[k].hook = "match"
     /\ NoRouteMatches(_routes, req.method, req.path)) =>
        /\ LastCall.hook = "match"
        /\ LastCall.kind = "raise"
        /\ LastCall.val.cls = "RouteNotFound"
        /\ result.kind = "returned"
        /\ result.value.status = <<404, "Not Found">>
        /\ BodyField(result, "code") = Str("ROUTE_NOT_FOUND")

\* a path that is registered, but only under another method
C9_Witness ==
    /\ pc = "done"
    /\ req.method = "POST"
    /\ req.path = <<"ping">>
    /\ "PingView" \in Registered(_routes)
    /\ calls # <<>>
    /\ LastCall.hook = "match"
    /\ result.value.status[1] = 404

\* ------------------------------------------------------------------------
\* Properties of the linear-scan route tables
\* ------------------------------------------------------------------------
Min(S) == CHOOSE x \in S : \A y \in S : x <= y

\* the positions of a RestCraft bucket whose view matches the path
ViewHits(bucket, path) ==
    {i \in 1..Len(bucket) : re_match(ViewDefs[bucket[i]].route, path)}

\* the positions of a Router bucket whose route matches the url
RouteHits(bucket, url) ==
    {i \in 1..Len(bucket) : Route_match(bucket[i], url) # <<>>}

\* C10: when several routes of the method's list match a path, resolving
\* returns the one registered first and none of the later ones, in
\* RestCraft.match and in Router.resolve
C10_FirstRegisteredWins ==
    /\ \A m \in Methods, p \in Paths :
         LET hits == ViewHits(_routes[m], p)
         IN hits # {} =>
              /\ match(_routes, p, m) = <<_routes[m][Min(hits)]>>
              /\ \A j \in hits \ {Min(hits)} :
                   match(_routes, p, m) # <<_routes[m][j]>>
    /\ ret.op = "resolve" =>
         LET bucket == Router_routes[ret.args[1]]
             hits == RouteHits(bucket, ret.args[2])
         IN hits # {} =>
              /\ ret.kind = "return"
              /\ ret.val.route = bucket[Min(hits)]
              /\ \A j \in hits \ {Min(hits)} : ret.val.route # bucket[j]

C10_Witness ==
    /\ ret.op = "resolve"
    /\ ret.args = <<"GET", <<"items", "7">>>>
    /\ Cardinality(RouteHits(Router_routes["GET"], <<"items", "7">>)) >= 2
    /\ ret.val.route.view = "ItemView"
    /\ Cardinality(ViewHits(_routes["GET"], <<"ping">>)) = 2
    /\ match(_routes, <<"ping">>, "GET") = <<"CatchAllView">>

\* ------------------------------------------------------------------------
\* Properties of the trie Router
\* ------------------------------------------------------------------------
\* the descent in which every segment, in order, is consumed by a literal
\* child or by the first matching pattern of the current node: node 0
\* once a segment is consumed by nothing
RECURSIVE Consume(_, _, _, _)
Consume(heap, id, segments, params) ==
    IF segments = <<>> \/ id = 0 THEN [node |-> id, params |-> params]
    ELSE LET segment == segments[1]
             children == heap[id].children
         IN IF DictHas(children, segment)
            THEN Consume(heap, DictGet(children, segment),
                             Tail(segments), params)
            ELSE IF DictHas(children, dynamic_key) THEN
                LET patterns == heap[DictGet(children, dynamic_key)].patterns
                    i == FirstPattern(patterns, segment, 1)
                IN IF i = 0
                   THEN [node |-> 0, params |-> params]
                   ELSE Consume(heap, patterns[i][2], Tail(segments),
                             DictSet(params, heap[patterns[i][2]].param,
                                     PatternMatch(patterns[i][1],
                                                  segment)[1]))
            ELSE [node |-> 0, params |-> params]

\* the node every segment of the path leads to, 0 when a segment is
\* consumed by nothing or the node carries no view
Reached(heap, path) ==
    LET c == Consume(heap, root, _split_path(path), <<>>)
    IN IF c.node # 0 /\ heap[c.node].view # None_ THEN c.node ELSE 0

\* C11 (as claimed): dispatch succeeds only if every segment of the path
\* is consumed, in order, by a literal child or a matching pattern and the
\* walk ends on a node carrying a view; otherwise it raises
\* NotFoundException
C11_EverySegmentConsumed ==
    http_ret.op = "dispatch" =>
        LET n == Reached(nodes, http_ret.args[2])
        IN /\ http_ret.kind = "return" => n # 0
           /\ n = 0 => /\ http_ret.kind = "raise"
                       /\ http_ret.val.cls = "NotFoundException"

\* C12 (as claimed): dispatch raises NotFoundException when the path
\* reaches no node carrying a view, and MethodNotAllowedException when it
\* reaches a node carrying a view that has no handler for the method (nor
\* for GET when the method is HEAD)
C12_NotFoundOrNotAllowed ==
    http_ret.op = "dispatch" =>
        LET n == Reached(nodes, http_ret.args[2])
            method == http_ret.args[1]
        IN /\ n = 0 => /\ http_ret.kind = "raise"
                       /\ http_ret.val.cls = "NotFoundException"
           /\ (/\ n # 0
               /\ ~DictHas(nodes[n].handlers, method)
               /\ ~(method = "HEAD" /\ DictHas(nodes[n].handlers, "GET")))
              => /\ http_ret.kind = "raise"
                 /\ http_ret.val.cls = "MethodNotAllowedException"

\* C13: add_route for a path whose terminal node already carries a view
\* raises RuntimeError and changes no node; no call ever changes the view
\* or the handlers of a node that carries a view, so dispatch keeps
\* reaching the first view
C13_ConflictKeepsFirst ==
    [][/\ http_ret'.op = "add_route" =>
            LET d == Descend(nodes, root, SplitRoute(http_ret'.args[1]))
            IN (d.heap = nodes /\ nodes[d.node].view # None_) =>
                  /\ http_ret'.kind = "raise"
                  /\ http_ret'.val.cls = "RuntimeError"
                  /\ nodes' = nodes
       /\ \A i \in 1..Len(nodes) :
            nodes[i].view # None_ =>
               /\ nodes'[i].view = nodes[i].view
               /\ nodes'[i].handlers = nodes[i].handlers
       /\ (http_ret'.op = "dispatch" /\ http_ret'.kind = "return") =>
            \E i \in 1..Len(nodes) : nodes[i].view = http_ret'.val.view
      ]_vars

\* a second registration under another parameter name conflicts with the
\* first at the node of the pattern
C13_Witness ==
    /\ http_ret.op = "add_route"
    /\ http_ret.kind = "raise"
    /\ http_ret.args = <<<<Lit("users"), DynSeg(<<"num", "\\d+">>)>>,
                         "UsersView">>
    /\ \E i \in 1..Len(nodes) :
         /\ nodes[i].param = "id"
         /\ nodes[i].view = ViewInstance("UserView")

\* C14 (as claimed): a view whose pattern and method are those of a view
\* registered before is rejected at registration: no method's list, of the
\* regex-list Router or of the application, ever holds two routes with
\* the same pattern
C14_DuplicateRejected ==
    /\ \A m \in DOMAIN Router_routes :
         \A i, j \in 1..Len(Router_routes[m]) :
            i # j => Router_routes[m][i].regex # Router_routes[m][j].regex
    /\ \A m \in DOMAIN _routes :
         \A i, j \in 1..Len(_routes[m]) :
            i # j => ViewDefs[_routes[m][i]].route #
                     ViewDefs[_routes[m][j]].route

\* ------------------------------------------------------------------------
\* More properties of the request lifecycle
\* ------------------------------------------------------------------------
\* C15 (as claimed): a POST whose body exceeds MAX_BODY_SIZE and that no
\* hook before the handler ends gets a 413 response with the code
\* BODY_TOO_LARGE, and the matched view's handler is not called
C15_BodyTooLarge ==
    (/\ pc = "done"
     /\ req.method = "POST"
     /\ req.content_length > MAX_BODY_SIZE
     /\ \E k \in 1..Len(calls) :
          calls[k].hook = "view.before_handler" /\ calls[k].kind = "pass")
    => /\ result.kind = "returned"
       /\ result.value.status[1] = 413
       /\ BodyField(result, "code") = Str("BODY_TOO_LARGE")
       /\ \A k \in 1..Len(calls) : calls[k].hook # "view.handler"

\* C16: when process_request has finished, whether it returned a response
\* or an exception left it, the context holds no entry: ctx.request and
\* ctx.view are gone
C16_ContextCleared ==
    pc = "done" => ctx = EmptyCtx

C16_Witness ==
    /\ pc = "done"
    /\ view # NoView
    /\ req # NoReq
    /\ ctx = EmptyCtx
    /\ result.kind = "escaped"

C16_WitnessReturned ==
    /\ pc = "done"
    /\ view # NoView
    /\ ctx = EmptyCtx
    /\ result.kind = "returned"
    /\ Uneventful

\* where the view's hooks stand in the calls of a request: a Response from
\* view.before_handler is the last call and no handler, no view
\* after_handler and no middleware after_handler is called; after any other
\* return of view.before_handler the handler is called next;
\* view.after_handler is called right after a handler that returned a
\* Response, and never after a handler that did not
ViewHookOrder ==
    \A k \in 1..Len(calls) :
        /\ (calls[k].hook = "view.before_handler"
            /\ calls[k].kind = "response") =>
               /\ k = Len(calls)
               /\ pc = "done"
               /\ \A j \in 1..Len(calls) : calls[j].hook \notin
                    {"view.handler", "view.after_handler", "after_handler"}
        /\ (calls[k].hook = "view.before_handler"
            /\ calls[k].kind = "pass") =>
               IF k = Len(calls) THEN pc = "handler"
               ELSE calls[k + 1].hook = "view.handler"
        /\ (calls[k].hook = "view.handler" /\ calls[k].kind = "response") =>
               IF k = Len(calls) THEN pc = "view_after_handler"
               ELSE calls[k + 1].hook = "view.after_handler"
        /\ (calls[k].hook = "view.handler" /\ calls[k].kind # "response") =>
               \A j \in 1..Len(calls) : calls[j].hook # "view.after_handler"
        /\ calls[k].hook = "view.after_handler" =>
               /\ k > 1
               /\ calls[k - 1].hook = "view.handler"
               /\ calls[k - 1].kind = "response"

C17_WitnessHandler ==
    /\ pc = "done"
    /\ \E k \in 1..Len(calls) :
         calls[k].hook = "view.handler" /\ calls[k].kind = "pass"
    /\ LastCall.hook = "view.on_exception"

\* C18: when the view's on_exception returns a value that is not a Response
\* the request ends with a status-500 response whose message is "Route
\* exception must return Response object.", which is not the message for a
\* handler that returned a non-Response
C18_OnExceptionNonResponse ==
    (pc = "done" /\ LastCall.hook = "view.on_exception"
                 /\ LastCall.kind = "pass")
    => /\ result.kind = "returned"
       /\ result.value.status[1] = 500
       /\ BodyField(result, "message") =
              Str("Route exception must return Response object.")
       /\ BodyField(result, "message") #
              Str(MustReturnResponse("handler").message)

C18_Witness ==
    /\ pc = "done"
    /\ Len(calls) >= 2
    /\ LastCall.hook = "view.on_exception"
    /\ LastCall.kind = "pass"
    /\ calls[Len(calls) - 1].hook = "view.handler"
    /\ calls[Len(calls) - 1].kind = "pass"
    /\ result.value.status[1] = 500

MiddlewareHooks == {"before_route", "before_handler", "after_handler"}

\* C19: an error raised by a middleware's before_route, before_handler or
\* after_handler or by match ends the calls of the request and is rendered
\* by the dispatch-level handler; on_exception is called only right after a
\* hook of the view, with the error of that hook
C19_MiddlewareErrorsEscape ==
    \A k \in 1..Len(calls) :
        /\ (calls[k].hook \in MiddlewareHooks \cup {"match"}
            /\ calls[k].kind = "raise") =>
               /\ k = Len(calls)
               /\ pc = "done"
               /\ result = Dispatch(calls[k].val, DEBUG)
        /\ calls[k].hook = "view.on_exception" =>
               /\ k > 1
               /\ calls[k - 1].hook \in ViewHooks
               /\ calls[k].arg = IF calls[k - 1].kind = "raise"
                                 THEN calls[k - 1].val
                                 ELSE MustReturnResponse("handler")

C19_Witness ==
    /\ pc = "done"
    /\ LastCall.hook = "after_handler"
    /\ LastCall.kind = "raise"
    /\ IsRestCraftException(LastCall.val)
    /\ ViewDefs[view].overrides_on_exception
    /\ result.kind = "returned"

C19_WitnessMatch ==
    /\ pc = "done"
    /\ LastCall.hook = "match"
    /\ LastCall.kind = "raise"
    /\ result.kind = "returned"

\* the k-th call is a fault: a handler or an on_exception that returned a
\* non-Response, or a hook that raised an exception that is no
\* RestCraftException
IsFault(k) ==
    \/ calls[k].hook \in {"view.handler", "view.on_exception"}
         /\ calls[k].kind = "pass"
    \/ calls[k].kind = "raise" /\ ~IsRestCraftException(calls[k].val)

\* C20 (as claimed): a request in which a fault happened has written the
\* stack trace of an exception to wsgi.errors, whatever DEBUG is
C20_FaultsLogged ==
    (pc = "done" /\ \E k \in 1..Len(calls) : IsFault(k))
    => errors # <<>>

\* the request passed the handler: the handler returned a Response and no
\* after_handler hook raised
PassedHandler ==
    /\ pc = "done"
    /\ \E k \in 1..Len(calls) :
         calls[k].hook = "view.handler" /\ calls[k].kind = "response"
    /\ \A k \in 1..Len(calls) : calls[k].kind # "raise"

\* the Response the handler returned, with the changes the after_handler
\* hooks called after it made to it, in the order of the calls
RECURSIVE Changed(_, _)
Changed(r, k) ==
    IF k > Len(calls) THEN r
    ELSE Changed(IF calls[k].kind = "mutate"
                 THEN [r EXCEPT !.body = calls[k].val] ELSE r, k + 1)

HandlerResponse ==
    LET k == CHOOSE i \in 1..Len(calls) : calls[i].hook = "view.handler"
    IN Changed(calls[k].val, k + 1)

RouteTable == <<_routes, _middlewares, [v \in Views |-> view_route[v].pattern]>>

\* C29: no step of wsgi and process_request changes the per-method lists of
\* views, the pattern of a view's route or the list of middlewares,
\* however the request ends
C29_RouteTableUnchanged ==
    [][pc # "idle" \/ pc' # "idle" => RouteTable' = RouteTable]_vars

C29_Witness ==
    /\ pc = "done"
    /\ result.kind = "escaped"
    /\ Cardinality(Registered(_routes)) = 2
    /\ \E v \in Registered(_routes) : view_route[v].compiled
    /\ \E v \in Registered(_routes) : ~view_route[v].compiled

\* ------------------------------------------------------------------------
\* Properties of the regex-list Router
\* ------------------------------------------------------------------------
\* C22: with the type int of the module, the route /items/<id:int> matched
\* against /items/d gives {id: int(d)} with an int value for a digit string
\* d and does not match for a segment that is not a digit string
C22_IntParam ==
    (/\ ret.op = "match"
     /\ ret.args[1] = "ItemIntView"
     /\ Router_type_map["int"] = IntType
     /\ Len(ret.args[2]) = 2
     /\ ret.args[2][1] = "items")
    => LET d == ret.args[2][2]
       IN /\ ret.kind = "return"
          /\ d = "7" => ret.val = Dict(<<<<"id", [t |-> "int", n |-> 7]>>>>)
          /\ d = "42" => ret.val = Dict(<<<<"id", [t |-> "int", n |-> 42]>>>>)
          /\ d \notin {"7", "42"} => ret.val = None_

C22_Witness ==
    /\ ret.op = "match"
    /\ ret.args = <<"ItemIntView", <<"items", "42">>>>
    /\ "hex" \in DOMAIN Router_type_map
    /\ ret.val = Dict(<<<<"id", [t |-> "int", n |-> 42]>>>>)

C22_WitnessNoMatch ==
    /\ ret.op = "match"
    /\ ret.args = <<"ItemIntView", <<"items", "new">>>>
    /\ Router_type_map["int"] = IntType
    /\ ret.val = None_

\* C23: the route /search/<?q> matches /search with {q: None} and
\* /search/term with {q: 'term'}
C23_OptionalParam ==
    (ret.op = "match" /\ ret.args[1] = "SearchView") =>
        /\ ret.kind = "return"
        /\ ret.args[2] = <<"search">> =>
             ret.val = Dict(<<<<"q", None_>>>>)
        /\ ret.args[2] = <<"search", "term">> =>
             ret.val = Dict(<<<<"q", Str("term")>>>>)

C23_Witness ==
    /\ ret.op = "match"
    /\ ret.args = <<"SearchView", <<"search">>>>
    /\ ret.val = Dict(<<<<"q", None_>>>>)

C23_WitnessTerm ==
    /\ ret.op = "match"
    /\ ret.args = <<"SearchView", <<"search", "term">>>>
    /\ ret.val = Dict(<<<<"q", Str("term")>>>>)

\* a path with one slash added at its end, and the paths with one slash
\* added after one of its segments but the last
WithTrailingSlash(path) == path \o <<"">>
WithExtraSlash(path) ==
    {SubSeq(path, 1, i) \o <<"">> \o SubSeq(path, i + 1, Len(path)) :
        i \in 1..(Len(path) - 1)}

\* the regex-list Router treats a slash at the end as optional and a slash
\* added in the middle as another path: for every route the type map
\* accepts
C24_RegexRouter ==
    \A v \in DOMAIN RouterViewDefs :
        ~_validate_pattern(RouterViewDefs[v].route, Router_type_map) =>
            LET route == Route(0, v, RouterViewDefs[v].route, Router_type_map)
            IN \A url \in {u \in RouteUrls : \A i \in 1..Len(u) : u[i] # ""} :
                 /\ Route_match(route, WithTrailingSlash(url)) =
                        Route_match(route, url)
                 /\ Route_match(route, url) # <<>> =>
                        \A u \in WithExtraSlash(url) :
                            Route_match(route, u) = <<>>

\* C24 (as claimed): in both routers a path with a slash added at its end
\* resolves as the path without it, and a path with a slash added in the
\* middle does not resolve to the route the path resolves to
C24_TrailingSlashOnly ==
    /\ C24_RegexRouter
    /\ \A m \in HttpMethods, path \in {<<"users">>, <<"users", "12">>} :
         \A order \in SetOrders(m) :
            LET plain == dispatch_body(nodes, m, path, order)
            IN /\ dispatch_body(nodes, m, WithTrailingSlash(path), order)
                      = plain
               /\ (plain.kind = "return" /\ Reached(nodes, path) # 0) =>
                    \A u \in WithExtraSlash(path) :
                        dispatch_body(nodes, m, u, order) # plain

\* the views of the model whose pattern Route._validate_pattern rejects
\* with the type map of the module
InvalidViews ==
    {"TwoParamsView", "BadStaticView", "BadTypeView", "BadNameView"}

\* C25: add_route of a view with an invalid pattern, or with a name that is
\* registered already, raises, and an add_route that raises changes
\* neither the lists of routes nor the registry of names
C25_FailedAddRouteChangesNothing ==
    [][ret'.op = "add_route" =>
         /\ (\/ ret'.args[1] \in InvalidViews
             \/ /\ RouterViewDefs[ret'.args[1]].name # ""
                /\ DictHas(_url_registry,
                           RouterViewDefs[ret'.args[1]].name))
            => ret'.kind = "raise"
         /\ ret'.kind = "raise" =>
              UNCHANGED <<Router_routes, _url_registry>>]_vars

C25_Witness ==
    /\ ret.op = "add_route"
    /\ ret.args = <<"BadTypeView">>
    /\ ret.kind = "raise"
    /\ Len(Router_routes["GET"]) = 2
    /\ DictHas(_url_registry, "item-new")
    /\ ~DictHas(_url_registry, "bad-type")

C25_WitnessName ==
    /\ ret.op = "add_route"
    /\ ret.args = <<"ItemNewView">>
    /\ ret.kind = "raise"
    /\ Len(Router_routes["GET"]) = 1

C26_WitnessRaise ==
    /\ ret.op = "add_type"
    /\ ret.args = <<"int", "SlugType", FALSE>>
    /\ ret.kind = "raise"
    /\ Router_type_map["int"] = IntType

\* C27 (as claimed): resolve('HEAD', path) returns the first route of the
\* GET list that matches path when no route is registered for HEAD
C27_HeadSearchesGet ==
    (/\ ret.op = "resolve"
     /\ ret.args[1] = "HEAD"
     /\ Router_routes["HEAD"] = <<>>
     /\ RouteHits(Router_routes["GET"], ret.args[2]) # {})
    => /\ ret.kind = "return"
       /\ ret.val.route =
              Router_routes["GET"][Min(RouteHits(Router_routes["GET"],
                                                 ret.args[2]))]

\* C28 (as claimed): once the Router has resolved a request, add_route
\* raises and leaves the lists of routes as they were
C28_NoRouteAfterStartup ==
    [][(ret.op \in {"resolve", "setitem"} /\ ret'.op = "add_route") =>
          /\ ret'.kind = "raise"
          /\ UNCHANGED Router_routes]_vars

\* C30 (as claimed): the params resolve returns for a request are those
\* of matching the path of that request, whatever was done with the params
\* of the requests before it
C30_ParamsOwned ==
    (ret.op = "resolve" /\ ret.kind = "return") =>
        ret.val.params = Route_match(ret.val.route, ret.args[2])[1]

\* ------------------------------------------------------------------------
\* More properties of the request lifecycle
\* ------------------------------------------------------------------------
AfterHooks == {"view.after_handler", "after_handler"}

\* the result is a Response a hook returned and process_request finalized
\* (lines 312, 334, 352, 366, 383), with what the after hooks did to it
FromHook(k) ==
    /\ calls[k].kind = "response"
    /\ calls[k].hook \notin AfterHooks
    /\ result.kind = "returned"
    /\ result.response = Changed(calls[k].val, k + 1)

\* the result was made by the except clauses at the end of
\* process_request (lines 384-437)
FromErrorHandler == pc = "done" /\ ~\E k \in 1..Len(calls) : FromHook(k)

FromOnException ==
    /\ pc = "done"
    /\ Len(calls) > 0
    /\ LastCall.hook = "view.on_exception"
    /\ FromHook(Len(calls))

\* a middleware after_handler is called only after the handler returned a
\* Response and the view's after_handler returned
AfterHandlerOnlyAfterView ==
    \A k \in 1..Len(calls) :
        calls[k].hook = "after_handler" =>
            \E i, j \in 1..k :
                /\ i < j /\ j < k
                /\ calls[i].hook = "view.handler"
                /\ calls[i].kind = "response"
                /\ calls[j].hook = "view.after_handler"
                /\ calls[j].kind # "raise"

NoAfterHandlerCalled == \A k \in 1..Len(calls) : calls[k].hook # "after_handler"

\* C32 (as claimed): middleware after_handler hooks run only when the
\* handler returned a Response and the view's after_handler finished
\* without raising; when the result comes from the view's on_exception or
\* from the dispatch-level error handler, no middleware after_handler was
\* called
C32_AsClaimed ==
    /\ AfterHandlerOnlyAfterView
    /\ (FromOnException \/ FromErrorHandler) => NoAfterHandlerCalled

\* C32 (amended): as C32, where the dispatch-level error handler is the one
\* of an error raised before the first middleware after_handler: an error
\* a middleware after_handler raises, or finalizing the Response after the
\* last of them raises, is rendered by the dispatch-level handler too
C32_AfterHandlerOnlyOnSuccess ==
    /\ AfterHandlerOnlyAfterView
    /\ FromOnException => NoAfterHandlerCalled
    /\ (FromErrorHandler /\ Len(calls) > 0
                         /\ LastCall.hook # "after_handler")
           => NoAfterHandlerCalled

C32_Witness ==
    /\ FromOnException
    /\ Len(_middlewares) = 2
    /\ Len(calls) >= 2
    /\ calls[Len(calls) - 1].hook = "view.after_handler"

C32_WitnessDispatch ==
    /\ FromErrorHandler
    /\ Len(_middlewares) = 2
    /\ LastCall.hook = "view.on_exception"
    /\ LastCall.kind = "raise"

C32_WitnessAfter ==
    /\ pc = "done"
    /\ Len(calls) > 0
    /\ ~FromErrorHandler
    /\ Len(_middlewares) = 2
    /\ LastCall.hook = "after_handler"

\* C36: an exception that is no RestCraftException, raised by the view's
\* before_handler, handler or after_handler, ends the calls of the request:
\* on_exception is not called and the result is the one of the generic
\* handler, status 500
C36_OtherErrorsSkipOnException ==
    \A k \in 1..Len(calls) :
        (/\ calls[k].hook \in ViewHooks
         /\ calls[k].kind = "raise"
         /\ ~IsRestCraftException(calls[k].val)) =>
            /\ k = Len(calls)
            /\ pc = "done"
            /\ \A j \in 1..Len(calls) : calls[j].hook # "view.on_exception"
            /\ result = except_Exception(calls[k].val, DEBUG)
            /\ result.value.status[1] = 500

C36_Witness ==
    /\ pc = "done"
    /\ LastCall.hook = "view.after_handler"
    /\ LastCall.kind = "raise"
    /\ ~IsRestCraftException(LastCall.val)
    /\ ViewDefs[view].overrides_on_exception
    /\ result.value.status[1] = 500

\* ------------------------------------------------------------------------
\* More properties of the trie Router
\* ------------------------------------------------------------------------
\* C33 (as claimed): a HEAD dispatch to a node that has a HEAD handler and
\* a GET handler returns the HEAD handler, never the GET one
C33_HeadHandlerForHead ==
    (http_ret.op = "dispatch" /\ http_ret.args[1] = "HEAD") =>
        LET f == _find_node(nodes, http_ret.args[2])
        IN (/\ f.node # 0
            /\ DictHas(nodes[f.node].handlers, "HEAD")
            /\ DictHas(nodes[f.node].handlers, "GET")) =>
               /\ http_ret.kind = "return"
               /\ http_ret.val.handler =
                      DictGet(nodes[f.node].handlers, "HEAD").handler

\* the last step of the descent of _find_node for a path: the node the
\* segments before the last lead to, the last segment, the patterns of the
\* dynamic child of that node and the positions of those that match
LastStep(path) ==
    LET segs == _split_path(path)
        n == Len(segs)
        prev == Walk(nodes, root, SubSeq(segs, 1, n - 1), <<>>)
        children == nodes[prev.node].children
        patterns == IF DictHas(children, dynamic_key)
                    THEN nodes[DictGet(children, dynamic_key)].patterns
                    ELSE <<>>
    IN [prev |-> prev, segment |-> segs[n], children |-> children,
        patterns |-> patterns,
        matching |-> {i \in 1..Len(patterns) :
                         PatternMatch(patterns[i][1], segs[n]) # <<>>},
        end |-> Walk(nodes, root, segs, <<>>)]

\* C34: in the descent, a literal child equal to the segment is taken even
\* when dynamic patterns match the segment too, and binds nothing; with no
\* such child the first pattern, in insertion order, that matches is taken
\* and its parameter name is bound to the matched text, a string
C34_LiteralThenFirstPattern ==
    (http_ret.op = "dispatch" /\ _split_path(http_ret.args[2]) # <<>>) =>
        LET s == LastStep(http_ret.args[2])
        IN /\ DictHas(s.children, s.segment) =>
                /\ s.end.node = DictGet(s.children, s.segment)
                /\ s.end.params = s.prev.params
           /\ (~DictHas(s.children, s.segment) /\ s.matching # {}) =>
                LET first == s.patterns[Min(s.matching)]
                    text == PatternMatch(first[1], s.segment)[1]
                IN /\ s.end.node = first[2]
                   /\ s.end.params =
                          DictSet(s.prev.params, nodes[first[2]].param, text)
                   /\ text \in STRING
           /\ http_ret.kind = "return" =>
                /\ http_ret.val.params = s.end.params
                /\ http_ret.val.view = nodes[s.end.node].view

C34_Witness ==
    /\ http_ret.op = "dispatch"
    /\ http_ret.kind = "return"
    /\ _split_path(http_ret.args[2]) # <<>>
    /\ LET s == LastStep(http_ret.args[2])
       IN /\ DictHas(s.children, s.segment)
          /\ s.matching # {}
          /\ http_ret.val.params = <<>>

C34_WitnessPattern ==
    /\ http_ret.op = "dispatch"
    /\ http_ret.kind = "return"
    /\ _split_path(http_ret.args[2]) # <<>>
    /\ LET s == LastStep(http_ret.args[2])
       IN /\ ~DictHas(s.children, s.segment)
          /\ Cardinality(s.matching) = 2
          /\ http_ret.val.params # <<>>

\* ------------------------------------------------------------------------
\* More properties of the regex-list Router
\* ------------------------------------------------------------------------
\* C35: whatever add_route and resolve calls came before, resolve returns
\* the route, or raises the RouteNotFound, that a scan of the route list as
\* it is now gives for the same method and path
C35_MemoLikeScan ==
    ret.op = "resolve" =>
        LET scan == resolve_body(Router_routes, ret.args[1], ret.args[2])
        IN /\ ret.kind = scan.kind
           /\ ret.kind = "return" => ret.val.route = scan.val.route
           /\ ret.kind = "raise" => ret.val = scan.val

\* a call answered from the memo (the params carry what a caller of an
\* earlier call wrote) when two routes of the list match the path
C35_Witness ==
    /\ ret.op = "resolve"
    /\ ret.kind = "return"
    /\ DictHas(ret.val.params.items, "seen")
    /\ Cardinality(RouteHits(Router_routes[ret.args[1]], ret.args[2])) = 2

C35_WitnessNotFound ==
    /\ ret.op = "resolve"
    /\ ret.kind = "raise"
    /\ resolve_cache # <<>>
    /\ Router_routes["GET"] # <<>>

\* what add_route(view) of the second Router would do now: raise, or
\* append the Route it compiles
OtherWouldAdd(v) ==
    LET def == RouterViewDefs[v]
    IN IF \/ _validate_pattern(def.route, Router_type_map)
          \/ def.name # "" /\ DictHas(_url_registry, def.name)
       THEN <<>>
       ELSE <<Route(0, v, def.route, Router_type_map)>>

\* C38 (as claimed): add_type or add_route on one Router never changes the
\* routes of a second Router nor what the second Router would accept and
\* compile at registration
C38_RoutersIndependent ==
    [][ret'.op \in {"add_type", "add_route"} =>
          /\ other_routes' = other_routes
          /\ \A v \in RoutersViews :
                OtherWouldAdd(v)' = OtherWouldAdd(v)]_vars

\* ------------------------------------------------------------------------
\* Properties of merge in the trie Router
\* ------------------------------------------------------------------------
\* the heap as the Router whose root is the node r sees it: dispatch
\* starts its walk at the root of its Router
RootedAt(heap, r) == [heap EXCEPT ![root] = heap[r]]

\* the trie below the node id, node by node
RECURSIVE Tree(_, _)
Tree(heap, id) ==
    LET n == heap[id]
    IN [n EXCEPT
          !.children = [i \in 1..Len(@) |-> <<@[i][1], Tree(heap, @[i][2])>>],
          !.patterns = [i \in 1..Len(@) |-> <<@[i][1], Tree(heap, @[i][2])>>]]

\* the handler and the view dispatch returned, <<>> when it raised
Dispatched(o) ==
    IF o.kind = "return" THEN <<o.val.handler, o.val.view>> ELSE <<>>

\* C31 (as claimed): after a merge that raised no conflict, every method
\* and path that dispatched to a handler in the Router or in other_router
\* before the merge dispatches to that handler in the Router
C31_MergeKeepsDispatch ==
    [][(http_ret'.op = "merge" /\ http_ret'.kind = "return") =>
          \A m \in MergeMethods, p \in MergePaths :
             \A order \in SetOrders(m) :
                LET a == dispatch_body(nodes, m, p, order)
                    b == dispatch_body(RootedAt(nodes, other_root), m, p,
                                       order)
                    after == dispatch_body(nodes', m, p, order)
                IN /\ a.kind = "return" => Dispatched(after) = Dispatched(a)
                   /\ b.kind = "return" => Dispatched(after) = Dispatched(b)
   ]_vars

\* C37 (as claimed): a merge that raises a route conflict leaves the trie
\* of the Router as it was before the call
C37_FailedMergeChangesNothing ==
    [][(http_ret'.op = "merge" /\ http_ret'.kind = "raise") =>
          Tree(nodes', root) = Tree(nodes, root)]_vars

\* ------------------------------------------------------------------------
\* Properties of ctx under several worker threads
\* ------------------------------------------------------------------------
\* what the thread t stored in ctx and did not clear yet
Stored(t) ==
    IF worker[t].pc = "request" THEN <<<<"request", worker[t].req>>>>
    ELSE IF worker[t].pc = "view"
    THEN <<<<"request", worker[t].req>>, <<"view", worker[t].view>>>>
    ELSE <<>>

\* C39: with two worker threads on one application, a thread that reads
\* ctx.request or ctx.view gets the request or the view it stored itself
\* (an AttributeError when it stored none yet), and what a thread stored
\* stays in ctx until that thread's own clear, whatever the other does
C39_ThreadsSeeOwnContext ==
    \A t \in Threads :
        /\ worker[t].pc # "idle" =>
              /\ local_ctx[threading_local(t)].has
              /\ local_ctx[threading_local(t)].ctx = Stored(t)
        /\ worker[t].read # None_ =>
              LET name == worker[t].read.name
                  got == worker[t].read.got
              IN IF DictHas(Stored(t), name)
                 THEN got = Return(DictGet(Stored(t), name))
                 ELSE got.kind = "raise"

\* both threads are in a request, each read its own request, and one of
\* them started after the other one cleared
C39_Witness ==
    /\ \A t \in Threads :
          /\ worker[t].pc # "idle"
          /\ worker[t].read # None_
          /\ worker[t].read.name = "request"
          /\ worker[t].read.got = Return(worker[t].req)
    /\ requests = MaxRequests

====
